---- MODULE Spec2Model ----
(***************************************************************************)
(* Layered tile-grid compositing engine of TinyTownScene: base layer,      *)
(* feature layer, named layers, region tree, placement with priority       *)
(* arbitration, structural pruning and the two undo snapshots.             *)
(***************************************************************************)
EXTENDS Integers, Sequences, FiniteSets, TLC

\* ------------------------------------------------------------------------
\* Bounds of the model
\* ------------------------------------------------------------------------
CANVAS_WIDTH == 2

CANVAS_HEIGHT == 2

MaxSteps == 4

MaxManual == 1

MaxCalls == 2

MaxTileId == 140

\* the pointer and the x arguments of the tools stay in columns 0 .. MaxPointerX
MaxPointerX == 0

Names == {"A", "B"}

ROOT == "Root"

NULL == "null"

\* null where a rectangle is expected, null where a point is expected
NO_BOUNDS == [none |-> TRUE]

NO_POINT == << >>

\* tile ids that the environment (generators, manual palette) hands in
Palette == {3, 15, 52}

Xs == 0 .. (CANVAS_WIDTH - 1)

Ys == 0 .. (CANVAS_HEIGHT - 1)

Cells == Xs \X Ys

\* where drags and manual edits land, and the x and width arguments of tools
PointerCells == { c \in Cells : c[1] <= MaxPointerX }

ArgXs == 0 .. MaxPointerX

ArgWidths == 1 .. (MaxPointerX + 1)

\* ------------------------------------------------------------------------
\* Static tables
\* ------------------------------------------------------------------------
TILE_PRIORITY == [HOUSE |-> 5, FENCE |-> 4, PATH |-> 3, DECOR |-> 2,
                  FOREST |-> 1, GRASS |-> 0, EMPTY |-> -1]

MULTI_TILE_TREES ==
  << [tiles |-> <<4, 16>>,  pos |-> << <<0, 0>>, <<0, 1>> >>],
     [tiles |-> <<3, 15>>,  pos |-> << <<0, 0>>, <<0, 1>> >>],
     [tiles |-> <<6, 8, 30, 32>>,
      pos |-> << <<0, 0>>, <<1, 0>>, <<0, 1>>, <<1, 1>> >>],
     [tiles |-> <<9, 11, 33, 35>>,
      pos |-> << <<0, 0>>, <<1, 0>>, <<0, 1>>, <<1, 1>> >>],
     [tiles |-> <<7, 19, 31, 18, 20>>,
      pos |-> << <<0, 0>>, <<0, 1>>, <<0, 2>>, <<-1, 1>>, <<1, 1>> >>],
     [tiles |-> <<10, 22, 34, 21, 23>>,
      pos |-> << <<0, 0>>, <<0, 1>>, <<0, 2>>, <<-1, 1>>, <<1, 1>> >>] >>

\* buildNeighbourRules: the rule entries of tile `id` (empty set: no rules)
buildNeighbourRules(id) ==
  UNION { UNION { { [dx |-> MULTI_TILE_TREES[s].pos[j][1] - MULTI_TILE_TREES[s].pos[i][1],
                    dy |-> MULTI_TILE_TREES[s].pos[j][2] - MULTI_TILE_TREES[s].pos[i][2],
                    expected |-> MULTI_TILE_TREES[s].tiles[j]] :
                    j \in { k \in DOMAIN MULTI_TILE_TREES[s].tiles : k # i } } :
                  i \in { k \in DOMAIN MULTI_TILE_TREES[s].tiles :
                            MULTI_TILE_TREES[s].tiles[k] = id } } :
          s \in DOMAIN MULTI_TILE_TREES }

HasRules(id) ==
  \E s \in DOMAIN MULTI_TILE_TREES :
    \E k \in DOMAIN MULTI_TILE_TREES[s].tiles : MULTI_TILE_TREES[s].tiles[k] = id

getTilePriority(tileIndex) ==
  IF tileIndex = -1 THEN TILE_PRIORITY.EMPTY
  ELSE IF (tileIndex >= 48 /\ tileIndex <= 67) \/ (tileIndex >= 72 /\ tileIndex <= 91)
    THEN TILE_PRIORITY.HOUSE
  ELSE IF tileIndex \in {44, 45, 46, 56, 58, 68, 69, 70} THEN TILE_PRIORITY.FENCE
  ELSE IF tileIndex >= 39 /\ tileIndex <= 43 THEN TILE_PRIORITY.PATH
  ELSE IF tileIndex \in {57, 83, 92, 93, 94, 95, 104, 105, 106, 107, 115, 116,
                         117, 118, 119, 127, 128, 129, 130, 131}
    THEN TILE_PRIORITY.DECOR
  ELSE IF (tileIndex >= 3 /\ tileIndex <= 23) \/ (tileIndex >= 27 /\ tileIndex <= 35)
    THEN TILE_PRIORITY.FOREST
  ELSE TILE_PRIORITY.GRASS

\* ------------------------------------------------------------------------
\* State
\* ------------------------------------------------------------------------
VARIABLES
  grassLayer,          \* base layer: [Cells -> tile index]
  featureLayer,        \* feature layer: [Cells -> tile index], -1 = no tile
  namedLayers,         \* Map name -> {layer, bounds}, in insertion order
  tilemapLayers,       \* names of the layers registered in the Phaser tilemap
  layerTree,           \* region tree: node name -> name of its parent
  activeLayerBounds,   \* NO_BOUNDS or the bounds of the active layer
  selectionStart,      \* NO_POINT or <<x, y>>
  selectionEnd,        \* NO_POINT or <<x, y>>
  selectedTiles,       \* cached selection: dimensions and featureGrid
  LastData,            \* grid snapshot before the last placement call
  TurnStartData,       \* grid snapshot at the start of the turn
  shouldSaveTurnStart, \* turn-start snapshot pending
  lastOp,              \* the operation that produced this state, its result
  turn,                \* history of the current turn, for the undo properties
  steps,               \* number of operations so far
  manual,              \* number of manual (placing mode) edits so far
  selectionLocked,     \* selection changes refused while the model responds
  inFlight             \* responses started and not yet ended

vars == <<grassLayer, featureLayer, namedLayers, tilemapLayers, layerTree,
          activeLayerBounds, selectionStart, selectionEnd, selectedTiles,
          LastData, TurnStartData, shouldSaveTurnStart, lastOp, turn, steps,
          manual,
          selectionLocked, inFlight>>

\* ------------------------------------------------------------------------
\* Helpers on layers and grids
\* ------------------------------------------------------------------------
Min2(a, b) == IF a < b THEN a ELSE b

Max2(a, b) == IF a > b THEN a ELSE b

\* TilemapLayer.getTileAt(x, y)?.index ?? -1  (null outside the layer)
getTileAt(layer, x, y) ==
  IF <<x, y>> \in DOMAIN layer THEN layer[<<x, y>>] ELSE -1

\* TilemapLayer.putTileAt(index, x, y) / removeTileAt: no effect outside
putTileAt(layer, index, x, y) ==
  IF <<x, y>> \in DOMAIN layer THEN [layer EXCEPT ![<<x, y>>] = index] ELSE layer

InBounds(b, x, y) ==
  x >= b.x /\ x < b.x + b.width /\ y >= b.y /\ y < b.y + b.height

LayerIndexOf(layers, name) ==
  IF \E i \in DOMAIN layers : layers[i].name = name
    THEN CHOOSE i \in DOMAIN layers : layers[i].name = name
    ELSE 0

LayerNames(layers) == { layers[i].name : i \in DOMAIN layers }

\* Map.delete(name)
MapDelete(layers, name) ==
  SelectSeq(layers, LAMBDA e : e.name # name)

\* Map.set(name, info): an existing key keeps its place, a new key goes last
MapSet(layers, name, info) ==
  IF name \in LayerNames(layers)
    THEN [i \in DOMAIN layers |->
            IF layers[i].name = name
              THEN [name |-> name, layer |-> info.layer,
                    bounds |-> info.bounds, tiles |-> info.tiles]
              ELSE layers[i]]
    ELSE Append(layers, [name |-> name, layer |-> info.layer,
                         bounds |-> info.bounds, tiles |-> info.tiles])

\* ------------------------------------------------------------------------
\* Combined reads
\* ------------------------------------------------------------------------
\* index of the first named layer, from position i on, holding a tile at (x,y)
RECURSIVE FirstNamedTile(_, _, _, _)
FirstNamedTile(layers, i, x, y) ==
  IF i > Len(layers) THEN -1
  ELSE IF InBounds(layers[i].bounds, x, y)
          /\ getTileAt(layers[i].tiles, x - layers[i].bounds.x,
                       y - layers[i].bounds.y) >= 0
    THEN getTileAt(layers[i].tiles, x - layers[i].bounds.x, y - layers[i].bounds.y)
  ELSE FirstNamedTile(layers, i + 1, x, y)

ReadCombined(grass, feature, layers, x, y) ==
  IF x < 0 \/ x >= CANVAS_WIDTH \/ y < 0 \/ y >= CANVAS_HEIGHT THEN -1
  ELSE IF FirstNamedTile(layers, 1, x, y) # -1 THEN FirstNamedTile(layers, 1, x, y)
  ELSE IF getTileAt(feature, x, y) >= 0 THEN getTileAt(feature, x, y)
  ELSE IF getTileAt(grass, x, y) >= 0 THEN getTileAt(grass, x, y)
  ELSE -1

getTileAtGlobal(x, y) == ReadCombined(grassLayer, featureLayer, namedLayers, x, y)

\* the named layers painted over `below`, in enumeration order (later wins)
RECURSIVE NamedOver(_, _, _, _, _)
NamedOver(layers, i, x, y, below) ==
  IF i > Len(layers) THEN below
  ELSE NamedOver(layers, i + 1, x, y,
         IF InBounds(layers[i].bounds, x, y)
            /\ getTileAt(layers[i].tiles, x - layers[i].bounds.x,
                         y - layers[i].bounds.y) # -1
           THEN getTileAt(layers[i].tiles, x - layers[i].bounds.x,
                          y - layers[i].bounds.y)
           ELSE below)

FlatCell(grass, feature, layers, x, y) ==
  NamedOver(layers, 1, x, y,
    IF getTileAt(feature, x, y) # -1 THEN getTileAt(feature, x, y)
    ELSE IF getTileAt(grass, x, y) # -1 THEN getTileAt(grass, x, y)
    ELSE -1)

Flatten(grass, feature, layers) ==
  [r \in 1 .. CANVAS_HEIGHT |->
     [c \in 1 .. CANVAS_WIDTH |-> FlatCell(grass, feature, layers, c - 1, r - 1)]]

GetFlattenedTileMap == Flatten(grassLayer, featureLayer, namedLayers)

\* the snapshot block of putFeatureAtSelection: feature tiles, then every
\* named layer's tiles (index >= 0) painted over them; the base is left out
SnapshotCell(feature, layers, x, y) ==
  LET RECURSIVE Over(_, _)
      Over(i, below) ==
        IF i > Len(layers) THEN below
        ELSE Over(i + 1,
               IF InBounds(layers[i].bounds, x, y)
                  /\ getTileAt(layers[i].tiles, x - layers[i].bounds.x,
                               y - layers[i].bounds.y) >= 0
                 THEN getTileAt(layers[i].tiles, x - layers[i].bounds.x,
                                y - layers[i].bounds.y)
                 ELSE below)
  IN Over(1, getTileAt(feature, x, y))

SnapshotGrid(feature, layers) ==
  [r \in 1 .. CANVAS_HEIGHT |->
     [c \in 1 .. CANVAS_WIDTH |-> SnapshotCell(feature, layers, c - 1, r - 1)]]

\* ------------------------------------------------------------------------
\* Structural pruning
\* ------------------------------------------------------------------------
EXPANSION == 2

SetMin(S) == CHOOSE m \in S : \A n \in S : m <= n

SetMax(S) == CHOOSE m \in S : \A n \in S : m >= n

\* rules.some(...): a neighbour is missing or is not the expected tile
IsBroken(feature, x, y) ==
  /\ getTileAt(feature, x, y) # -1
  /\ HasRules(getTileAt(feature, x, y))
  /\ \E r \in buildNeighbourRules(getTileAt(feature, x, y)) :
       getTileAt(feature, x + r.dx, y + r.dy) # r.expected

\* the rectangle pruneBrokenTrees scans for a list of changed cells
ScanBox(changed) ==
  IF changed = {}
    THEN [minX |-> 0, minY |-> 0,
          maxX |-> CANVAS_WIDTH - 1, maxY |-> CANVAS_HEIGHT - 1]
    ELSE [minX |-> Max2(0, SetMin({c[1] : c \in changed}) - EXPANSION),
          minY |-> Max2(0, SetMin({c[2] : c \in changed}) - EXPANSION),
          maxX |-> Min2(CANVAS_WIDTH - 1, SetMax({c[1] : c \in changed}) + EXPANSION),
          maxY |-> Min2(CANVAS_HEIGHT - 1, SetMax({c[2] : c \in changed}) + EXPANSION)]

ToRemove(feature, changed) ==
  { c \in (ScanBox(changed).minX .. ScanBox(changed).maxX)
            \X (ScanBox(changed).minY .. ScanBox(changed).maxY) :
      IsBroken(feature, c[1], c[2]) }

\* pruning that clears only the first broken cell of the scan (row-major)
pruneFirstBrokenOnly(feature, changed) ==
  LET rem == ToRemove(feature, changed)
      first == IF rem = {} THEN {}
               ELSE { CHOOSE c \in rem :
                        \A d \in rem : c[2] < d[2] \/ (c[2] = d[2] /\ c[1] <= d[1]) }
  IN [c \in DOMAIN feature |-> IF c \in first THEN -1 ELSE feature[c]]

\* pruneBrokenTrees(changed): every broken cell of the scan is collected
\* first, then all of them are cleared in the feature layer
pruneBrokenTrees(feature, changed) ==
  [c \in DOMAIN feature |->
     IF c \in ToRemove(feature, changed) THEN -1 ELSE feature[c]]

\* ------------------------------------------------------------------------
\* Placement
\* ------------------------------------------------------------------------
allowOverwriting == TRUE

UNDEFINED == -99

\* gridToPlace[yOffset]?.[xOffset]
GridCell(grid, xOffset, yOffset) ==
  IF yOffset + 1 \in DOMAIN grid /\ xOffset + 1 \in DOMAIN grid[yOffset + 1]
    THEN grid[yOffset + 1][xOffset + 1]
    ELSE UNDEFINED

GridHeight(grid) == Len(grid)

GridWidth(grid) == IF Len(grid) > 0 THEN Len(grid[1]) ELSE 0

\* putTileAt(index, localX, localY) in every named layer whose bounds hold (x,y)
PutInAllNamed(layers, index, x, y) ==
  [i \in DOMAIN layers |->
     IF InBounds(layers[i].bounds, x, y)
       THEN [layers[i] EXCEPT !.tiles =
               putTileAt(@, index, x - layers[i].bounds.x, y - layers[i].bounds.y)]
       ELSE layers[i]]

\* the first named layer whose bounds equal the active layer bounds (0: none)
ActiveLayerIndex(layers, b) ==
  IF \E i \in DOMAIN layers : layers[i].bounds = b
    THEN SetMin({ i \in DOMAIN layers : layers[i].bounds = b })
    ELSE 0

\* the first named layer whose bounds contain (x, y) (0: none)
ContainingLayerIndex(layers, x, y) ==
  IF \E i \in DOMAIN layers : InBounds(layers[i].bounds, x, y)
    THEN SetMin({ i \in DOMAIN layers : InBounds(layers[i].bounds, x, y) })
    ELSE 0

Written(acc, x, y) == [acc EXCEPT !.changed = Append(@, <<x, y>>)]

\* a cell blocked by priority that is left out of the skipped count
BlockedUncounted(acc, x, y) ==
  [acc EXCEPT !.skippedCells = @ \cup {<<x, y>>}]

Blocked(acc, x, y) ==
  [acc EXCEPT !.skipped = @ + 1, !.skippedCells = @ \cup {<<x, y>>}]

\* the feature-layer fallback of one cell (lines 1583-1638)
PlaceInFeature(acc, grass, new, x, y, undoing) ==
  LET currentTileIndex == FlatCell(grass, acc.feature, acc.layers, x, y)
      write == Written([acc EXCEPT
                          !.feature = putTileAt(@, new, x, y),
                          !.layers = IF undoing THEN PutInAllNamed(@, -1, x, y) ELSE @],
                       x, y)
  IN IF allowOverwriting
       THEN IF getTilePriority(new) >= getTilePriority(currentTileIndex) \/ undoing
              THEN write ELSE Blocked(acc, x, y)
       ELSE IF currentTileIndex = -1 THEN write ELSE Blocked(acc, x, y)

\* the named-layer stage of one cell (lines 1543-1581)
PlaceInNamed(acc, grass, new, x, y, undoing) ==
  LET i == ContainingLayerIndex(acc.layers, x, y)
      lx == x - acc.layers[i].bounds.x
      ly == y - acc.layers[i].bounds.y
      existingTileIndex == getTileAt(acc.layers[i].tiles, lx, ly)
  IN IF new >= 0 /\ i # 0 /\ (existingTileIndex = -1 \/ allowOverwriting)
       THEN IF getTilePriority(new) >= getTilePriority(existingTileIndex) \/ undoing
              THEN Written([acc EXCEPT !.layers[i].tiles = putTileAt(@, new, lx, ly)],
                           x, y)
              ELSE Blocked(acc, x, y)
       ELSE PlaceInFeature(acc, grass, new, x, y, undoing)

\* the active-layer stage of one cell (lines 1505-1541)
PlaceInActive(acc, grass, active, new, x, y, undoing) ==
  LET i == IF active = NO_BOUNDS THEN 0 ELSE ActiveLayerIndex(acc.layers, active)
  IN IF active # NO_BOUNDS /\ new >= 0 /\ InBounds(active, x, y) /\ i # 0
       THEN Written([acc EXCEPT !.layers[i].tiles =
                       putTileAt(@, new, x - active.x, y - active.y)], x, y)
       ELSE PlaceInNamed(acc, grass, new, x, y, undoing)

\* one iteration of the placement loop whose clear branch clears the
\* feature layer alone
PlaceCellClearFeature(acc, grass, active, grid, startX, startY, xOffset, yOffset, acceptneg, undoing) ==
  LET placeX == startX + xOffset
      placeY == startY + yOffset
      newTileIndex == GridCell(grid, xOffset, yOffset)
      counted == IF newTileIndex >= 0 \/ (undoing /\ newTileIndex = -1)
                   THEN [acc EXCEPT !.total = @ + 1] ELSE acc
  IN IF placeX < 0 \/ placeX >= CANVAS_WIDTH \/ placeY < 0 \/ placeY >= CANVAS_HEIGHT
       THEN acc
     ELSE IF newTileIndex = UNDEFINED THEN acc
     ELSE IF newTileIndex = -1 /\ ~undoing THEN acc
     ELSE IF acceptneg /\ newTileIndex = -2
       THEN Written([counted EXCEPT !.feature = putTileAt(@, -1, placeX, placeY)],
                    placeX, placeY)
     ELSE PlaceInActive(counted, grass, active, newTileIndex, placeX, placeY, undoing)

\* one iteration of the placement loop with no test of the grid bounds
PlaceCellNoRange(acc, grass, active, grid, startX, startY, xOffset, yOffset, acceptneg, undoing) ==
  LET placeX == startX + xOffset
      placeY == startY + yOffset
      newTileIndex == GridCell(grid, xOffset, yOffset)
      counted == IF newTileIndex >= 0 \/ (undoing /\ newTileIndex = -1)
                   THEN [acc EXCEPT !.total = @ + 1] ELSE acc
  IN IF newTileIndex = UNDEFINED THEN acc
     ELSE IF newTileIndex = -1 /\ ~undoing THEN acc
     ELSE IF acceptneg /\ newTileIndex = -2
       THEN Written([counted EXCEPT
                       !.feature = putTileAt(@, -1, placeX, placeY),
                       !.layers = PutInAllNamed(@, -1, placeX, placeY)],
                    placeX, placeY)
     ELSE PlaceInActive(counted, grass, active, newTileIndex, placeX, placeY, undoing)

\* one iteration of the placement loop with no test for -1
PlaceCellNoSkip(acc, grass, active, grid, startX, startY, xOffset, yOffset, acceptneg, undoing) ==
  LET placeX == startX + xOffset
      placeY == startY + yOffset
      newTileIndex == GridCell(grid, xOffset, yOffset)
      counted == IF newTileIndex >= 0 \/ (undoing /\ newTileIndex = -1)
                   THEN [acc EXCEPT !.total = @ + 1] ELSE acc
  IN IF placeX < 0 \/ placeX >= CANVAS_WIDTH \/ placeY < 0 \/ placeY >= CANVAS_HEIGHT
       THEN acc
     ELSE IF newTileIndex = UNDEFINED THEN acc
     ELSE IF acceptneg /\ newTileIndex = -2
       THEN Written([counted EXCEPT
                       !.feature = putTileAt(@, -1, placeX, placeY),
                       !.layers = PutInAllNamed(@, -1, placeX, placeY)],
                    placeX, placeY)
     ELSE PlaceInActive(counted, grass, active, newTileIndex, placeX, placeY, undoing)

\* one iteration of the placement loop (lines 1450-1639)
PlaceCell(acc, grass, active, grid, startX, startY, xOffset, yOffset, acceptneg, undoing) ==
  LET placeX == startX + xOffset
      placeY == startY + yOffset
      newTileIndex == GridCell(grid, xOffset, yOffset)
      counted == IF newTileIndex >= 0 \/ (undoing /\ newTileIndex = -1)
                   THEN [acc EXCEPT !.total = @ + 1] ELSE acc
  IN IF placeX < 0 \/ placeX >= CANVAS_WIDTH \/ placeY < 0 \/ placeY >= CANVAS_HEIGHT
       THEN acc
     ELSE IF newTileIndex = UNDEFINED THEN acc
     ELSE IF newTileIndex = -1 /\ ~undoing THEN acc
     ELSE IF acceptneg /\ newTileIndex = -2
       THEN Written([counted EXCEPT
                       !.feature = putTileAt(@, -1, placeX, placeY),
                       !.layers = PutInAllNamed(@, -1, placeX, placeY)],
                    placeX, placeY)
     ELSE PlaceInActive(counted, grass, active, newTileIndex, placeX, placeY, undoing)

\* the placement loop, cell k onwards in row-major order
RECURSIVE PlaceLoop(_, _, _, _, _, _, _, _, _)
PlaceLoop(acc, grass, active, grid, startX, startY, k, acceptneg, undoing) ==
  IF k >= GridHeight(grid) * GridWidth(grid) THEN acc
  ELSE PlaceLoop(
         PlaceCell(acc, grass, active, grid, startX, startY,
                   k % GridWidth(grid), k \div GridWidth(grid), acceptneg, undoing),
         grass, active, grid, startX, startY, k + 1, acceptneg, undoing)

SeqToSet(sq) == { sq[i] : i \in DOMAIN sq }

HasSelection ==
  /\ selectionStart # NO_POINT
  /\ selectionEnd # NO_POINT
  /\ (selectionStart # selectionEnd \/ selectedTiles.width > 0)

EmptySelectedTiles == [width |-> 0, height |-> 0, featureGrid |-> <<>>]

\* the result of putFeatureAtSelection on the current state:
\* layers after the loop and the pruning, and the counts returned
PlacementResult(grid, worldOverride, acceptneg, undoing) ==
  LET startX == IF ~worldOverride /\ HasSelection
                  THEN Min2(selectionStart[1], selectionEnd[1]) ELSE 0
      startY == IF ~worldOverride /\ HasSelection
                  THEN Min2(selectionStart[2], selectionEnd[2]) ELSE 0
      acc0 == [feature |-> featureLayer, layers |-> namedLayers,
               changed |-> <<>>, skippedCells |-> {}, total |-> 0, skipped |-> 0]
      empty == GridWidth(grid) = 0 \/ GridHeight(grid) = 0
      acc == IF empty THEN acc0
             ELSE PlaceLoop(acc0, grassLayer, activeLayerBounds, grid,
                            startX, startY, 0, acceptneg, undoing)
  IN [feature |-> IF empty THEN acc.feature
                  ELSE pruneBrokenTrees(acc.feature, SeqToSet(acc.changed)),
      layers |-> acc.layers,
      written |-> acc.feature,
      changed |-> SeqToSet(acc.changed),
      skippedCells |-> acc.skippedCells,
      placed |-> Len(acc.changed), skipped |-> acc.skipped, total |-> acc.total,
      startX |-> startX, startY |-> startY]

CombinedMap(grass, feature, layers) ==
  [c \in Cells |-> ReadCombined(grass, feature, layers, c[1], c[2])]

\* what a placement call leaves in lastOp: its arguments, the state it found
\* and the counts it returns
CallRecord(kind, grid, worldOverride, acceptneg, undoing, res) ==
  [kind |-> kind, grid |-> grid, worldOverride |-> worldOverride,
   acceptneg |-> acceptneg, undoing |-> undoing,
   startX |-> res.startX, startY |-> res.startY,
   changed |-> res.changed, skippedCells |-> res.skippedCells,
   placed |-> res.placed, skipped |-> res.skipped, total |-> res.total,
   before |-> CombinedMap(grassLayer, featureLayer, namedLayers),
   afterWrite |-> CombinedMap(grassLayer, res.written, res.layers),
   beforeSnap |-> SnapshotGrid(featureLayer, namedLayers),
   pending |-> shouldSaveTurnStart,
   active |-> activeLayerBounds]

\* the turn-start capture that re-arms on every call, pending or not
snapshotTurnStartAlways(snap) == snap

\* the turn-start capture of the snapshot block: only while the flag is pending
snapshotTurnStart(snap) == IF shouldSaveTurnStart THEN snap ELSE TurnStartData

\* putFeatureAtSelection(generatedData, worldOverride, acceptneg, undoing)
putFeatureAtSelection(grid, worldOverride, acceptneg, undoing, kind) ==
  LET res == PlacementResult(grid, worldOverride, acceptneg, undoing)
      snap == SnapshotGrid(featureLayer, namedLayers)
  IN /\ featureLayer' = res.feature
     /\ namedLayers' = res.layers
     /\ IF ~worldOverride /\ ~HasSelection
          THEN /\ selectionStart' = <<0, 0>>
               /\ selectionEnd' = <<0, 0>>
               /\ selectedTiles' = EmptySelectedTiles
          ELSE UNCHANGED <<selectionStart, selectionEnd, selectedTiles>>
     /\ IF ~acceptneg
          THEN /\ LastData' = snap
               /\ TurnStartData' = snapshotTurnStart(snap)
          ELSE UNCHANGED <<LastData, TurnStartData>>
     /\ lastOp' = CallRecord(kind, grid, worldOverride, acceptneg, undoing, res)
     /\ UNCHANGED <<grassLayer, tilemapLayers, layerTree, activeLayerBounds>>

\* ------------------------------------------------------------------------
\* Region tree (TreeStructure.ts): node name -> parent name
\* ------------------------------------------------------------------------
TreeNodes(t) == DOMAIN t

TreeChildren(t, n) == { c \in DOMAIN t : t[c] = n }

\* the nodes reachable from n going down, n excluded
RECURSIVE TreeDescendantsUpTo(_, _, _)
TreeDescendantsUpTo(t, S, k) ==
  IF k = 0 THEN S
  ELSE TreeDescendantsUpTo(t, S \cup { c \in DOMAIN t : t[c] \in S }, k - 1)

TreeDescendants(t, n) ==
  TreeDescendantsUpTo(t, TreeChildren(t, n), Cardinality(DOMAIN t))

\* Tree.getNode(name)
TreeGetNode(t, name) == name \in DOMAIN t

\* Tree.add(name, rect, w, h): a new node under the root
TreeAdd(t, name) ==
  IF name \in DOMAIN t THEN t
  ELSE [n \in DOMAIN t \cup {name} |-> IF n = name THEN ROOT ELSE t[n]]

\* Tree.rename(oldName, newName): in place, children kept
TreeRename(t, oldName, newName) ==
  IF oldName \notin DOMAIN t \/ newName \in DOMAIN t THEN t
  ELSE [n \in (DOMAIN t \ {oldName}) \cup {newName} |->
          LET src == IF n = newName THEN oldName ELSE n
          IN IF t[src] = oldName THEN newName ELSE t[src]]

\* Tree.deleteNode(name): the node goes, and with it whatever hangs below it
TreeDeleteNode(t, name) ==
  IF name \notin DOMAIN t THEN t
  ELSE [n \in DOMAIN t \ ({name} \cup TreeDescendants(t, name)) |-> t[n]]

\* Tree.move(name, newParentName): rejected into the node's own descendant
TreeMove(t, name, newParentName) ==
  IF name \notin DOMAIN t \/ newParentName \notin DOMAIN t THEN t
  ELSE IF newParentName \in TreeDescendants(t, name) THEN t
  ELSE [t EXCEPT ![name] = newParentName]

\* Tree.moveToRoot(name)
TreeMoveToRoot(t, name) ==
  IF name \notin DOMAIN t THEN t ELSE [t EXCEPT ![name] = ROOT]

\* findParent(childName, root) of main.ts: the parent's name, NULL if none
findParent(t, childName) ==
  IF childName \in DOMAIN t /\ (t[childName] = ROOT \/ t[childName] \in DOMAIN t)
    THEN t[childName] ELSE NULL

\* isDescendant(parent, possibleChild) of main.ts
isDescendant(t, parent, possibleChild) ==
  /\ parent \in DOMAIN t
  /\ possibleChild \in TreeDescendants(t, parent)

\* the drop handler's guard without the comparison of the two names
DropAllowedNoSelfCheck(t, draggedName, targetName) ==
  ~isDescendant(t, draggedName, targetName)

\* drop(event): the conditions under which the handler calls Tree.move
DropAllowed(t, draggedName, targetName) ==
  /\ draggedName # targetName
  /\ ~isDescendant(t, draggedName, targetName)

\* ------------------------------------------------------------------------
\* Selection
\* ------------------------------------------------------------------------
\* collectSelectedTiles(): the cache of the selected rectangle
collectSelectedTiles(feature, start, end) ==
  LET startX == Min2(start[1], end[1])
      startY == Min2(start[2], end[2])
      width == Max2(start[1], end[1]) - startX + 1
      height == Max2(start[2], end[2]) - startY + 1
  IN [width |-> width, height |-> height,
      featureGrid |->
        [r \in 1 .. height |->
           [c \in 1 .. width |-> getTileAt(feature, startX + c - 1, startY + r - 1)]]]

\* getSelection(): a copy of the cached feature grid and the dimensions
getSelection ==
  [grid |-> selectedTiles.featureGrid,
   width |-> selectedTiles.width, height |-> selectedTiles.height]

\* bookkeeping of the current turn: whether markNewTurn() opened it, the
\* placement calls since, the grid before the first of them, and whether
\* anything but placement calls and selections happened in between
TurnAfterCall ==
  [turn EXCEPT !.calls = @ + 1,
               !.base = IF turn.calls = 0 THEN GetFlattenedTileMap ELSE @]

TurnAfterOther == [turn EXCEPT !.pure = FALSE]

\* sendSystemMessage(message) up to its await: chatResponseStart is
\* dispatched at once and its listener in main.ts locks the selection
sendSystemMessage ==
  /\ selectionLocked' = TRUE
  /\ inFlight' = inFlight + 1

\* the end of a response: chatResponseEnd is dispatched and its listener in
\* main.ts unlocks the selection
ChatResponseEnd ==
  /\ inFlight > 0
  /\ inFlight' = inFlight - 1
  /\ selectionLocked' = FALSE
  /\ UNCHANGED <<grassLayer, featureLayer, namedLayers, tilemapLayers, layerTree,
                 activeLayerBounds, selectionStart, selectionEnd, selectedTiles,
                 LastData, TurnStartData, shouldSaveTurnStart, lastOp, turn,
                 steps, manual>>

Step(kind) ==
  /\ steps < MaxSteps
  /\ steps' = steps + 1
  /\ lastOp' = [kind |-> kind]

\* a drag on the canvas in selection mode: startSelection at s,
\* updateSelection up to e, endSelection
DragSelect(s, e) ==
  /\ Step("select")
  /\ ~selectionLocked
  /\ sendSystemMessage
  /\ activeLayerBounds # NO_BOUNDS =>
       /\ InBounds(activeLayerBounds, s[1], s[2])
       /\ InBounds(activeLayerBounds, e[1], e[2])
  /\ selectionStart' = s
  /\ selectionEnd' = e
  /\ selectedTiles' = collectSelectedTiles(featureLayer, s, e)
  /\ UNCHANGED <<grassLayer, featureLayer, namedLayers, tilemapLayers, layerTree,
                 activeLayerBounds, LastData, TurnStartData, shouldSaveTurnStart,
                 manual>>
  /\ UNCHANGED turn

\* pointerdown in placing mode: the tile goes straight into the feature layer
ManualPlace(c, index) ==
  /\ Step("manual")
  /\ UNCHANGED <<selectionLocked, inFlight>>
  /\ manual < MaxManual
  /\ manual' = manual + 1
  /\ featureLayer' = putTileAt(featureLayer, index, c[1], c[2])
  /\ UNCHANGED <<grassLayer, namedLayers, tilemapLayers, layerTree,
                 activeLayerBounds, selectionStart, selectionEnd, selectedTiles,
                 LastData, TurnStartData, shouldSaveTurnStart>>
  /\ turn' = TurnAfterOther

\* ------------------------------------------------------------------------
\* Named layers
\* ------------------------------------------------------------------------
SelectionBounds ==
  [x |-> Min2(selectionStart[1], selectionEnd[1]),
   y |-> Min2(selectionStart[2], selectionEnd[2]),
   width |-> Max2(selectionStart[1], selectionEnd[1])
               - Min2(selectionStart[1], selectionEnd[1]) + 1,
   height |-> Max2(selectionStart[2], selectionEnd[2])
                - Min2(selectionStart[2], selectionEnd[2]) + 1]

\* nameSelection(name); createBlankLayer gives null for a name the tilemap has
nameSelection(name) ==
  LET b == SelectionBounds
      tiles == [p \in (0 .. (b.width - 1)) \X (0 .. (b.height - 1)) |->
                  IF getTileAt(featureLayer, b.x + p[1], b.y + p[2]) >= 0
                    THEN getTileAt(featureLayer, b.x + p[1], b.y + p[2]) ELSE -1]
  IN IF name \in tilemapLayers
       THEN UNCHANGED <<featureLayer, namedLayers, tilemapLayers, layerTree>>
       ELSE /\ featureLayer' =
                 [c \in DOMAIN featureLayer |->
                    IF InBounds(b, c[1], c[2]) /\ featureLayer[c] >= 0
                      THEN -1 ELSE featureLayer[c]]
            /\ namedLayers' = MapSet(namedLayers, name,
                                     [layer |-> name, bounds |-> b, tiles |-> tiles])
            /\ tilemapLayers' = tilemapLayers \cup {name}
            /\ layerTree' = TreeAdd(layerTree, name)

\* the name_layer tool
NameLayerTool(name) ==
  /\ steps < MaxSteps
  /\ steps' = steps + 1
  /\ UNCHANGED <<selectionLocked, inFlight>>
  /\ selectionStart # NO_POINT
  /\ lastOp' = [kind |-> "name_layer", name |-> name,
                duplicate |-> name \in LayerNames(namedLayers)]
  /\ IF name \in LayerNames(namedLayers)
       THEN UNCHANGED <<featureLayer, namedLayers, tilemapLayers, layerTree>>
       ELSE nameSelection(name)
  /\ UNCHANGED <<grassLayer, activeLayerBounds, selectionStart, selectionEnd,
                 selectedTiles, LastData, TurnStartData, shouldSaveTurnStart, manual>>
  /\ turn' = TurnAfterOther

\* renameLayer(oldName, newName): the store and the tree after the call
renameLayer(oldName, newName) ==
  LET i == LayerIndexOf(namedLayers, oldName)
  IN IF i = 0
       THEN UNCHANGED <<namedLayers, layerTree>>
       ELSE /\ namedLayers' = MapSet(MapDelete(namedLayers, oldName), newName,
                                     namedLayers[i])
            /\ layerTree' = TreeRename(layerTree, oldName, newName)

\* a rename is a duplicate-name operation when the new name is held by
\* another layer
IsDuplicateRename(oldName, newName) ==
  newName # oldName /\ newName \in LayerNames(namedLayers)

\* the rename_layer tool
RenameLayerTool(oldName, newName) ==
  /\ steps < MaxSteps
  /\ steps' = steps + 1
  /\ UNCHANGED <<selectionLocked, inFlight>>
  /\ oldName \in LayerNames(namedLayers)
  /\ lastOp' = [kind |-> "rename_layer", oldName |-> oldName, newName |-> newName,
                duplicate |-> IsDuplicateRename(oldName, newName)]
  /\ IF newName \in LayerNames(namedLayers)
       THEN UNCHANGED <<namedLayers, layerTree>>
       ELSE renameLayer(oldName, newName)
  /\ UNCHANGED <<grassLayer, featureLayer, tilemapLayers, activeLayerBounds,
                 selectionStart, selectionEnd, selectedTiles, LastData,
                 TurnStartData, shouldSaveTurnStart, manual>>
  /\ turn' = TurnAfterOther

\* setActiveLayer(name) evaluated on a store
ActiveBoundsOf(layers, name) ==
  IF name # NULL /\ LayerIndexOf(layers, name) # 0
    THEN layers[LayerIndexOf(layers, name)].bounds ELSE NO_BOUNDS

\* the context menu's Rename entry: renameLayer, selectLayer, zoomToLayer,
\* setActiveLayer, clearSelection
CtxRename(contextTarget, newName) ==
  /\ steps < MaxSteps
  /\ steps' = steps + 1
  /\ contextTarget \in TreeNodes(layerTree)
  /\ lastOp' = [kind |-> "ctx_rename", oldName |-> contextTarget,
                newName |-> newName,
                duplicate |-> IsDuplicateRename(contextTarget, newName)]
  /\ renameLayer(contextTarget, newName)
  /\ IF newName \in LayerNames(namedLayers')
       THEN sendSystemMessage
       ELSE UNCHANGED <<selectionLocked, inFlight>>
  /\ activeLayerBounds' = ActiveBoundsOf(namedLayers', newName)
  /\ selectionStart' = <<0, 0>>
  /\ selectionEnd' = <<0, 0>>
  /\ selectedTiles' = EmptySelectedTiles
  /\ UNCHANGED <<grassLayer, featureLayer, tilemapLayers, LastData,
                 TurnStartData, shouldSaveTurnStart, manual>>
  /\ turn' = TurnAfterOther

\* left click on a tree label: selectLayer, zoomToLayer, setActiveLayer,
\* clearSelection
LabelClick(name) ==
  /\ Step("label_click")
  /\ IF name \in LayerNames(namedLayers)
       THEN sendSystemMessage
       ELSE UNCHANGED <<selectionLocked, inFlight>>
  /\ name \in TreeNodes(layerTree)
  /\ activeLayerBounds' = ActiveBoundsOf(namedLayers, name)
  /\ selectionStart' = <<0, 0>>
  /\ selectionEnd' = <<0, 0>>
  /\ selectedTiles' = EmptySelectedTiles
  /\ UNCHANGED <<grassLayer, featureLayer, namedLayers, tilemapLayers, layerTree,
                 LastData, TurnStartData, shouldSaveTurnStart, manual>>
  /\ turn' = TurnAfterOther

\* click on Home: resetView, clearSelection, setActiveLayer(null)
HomeClick ==
  /\ Step("home_click")
  /\ UNCHANGED <<selectionLocked, inFlight>>
  /\ activeLayerBounds' = NO_BOUNDS
  /\ selectionStart' = <<0, 0>>
  /\ selectionEnd' = <<0, 0>>
  /\ selectedTiles' = EmptySelectedTiles
  /\ UNCHANGED <<grassLayer, featureLayer, namedLayers, tilemapLayers, layerTree,
                 LastData, TurnStartData, shouldSaveTurnStart, manual>>
  /\ turn' = TurnAfterOther

\* the names deleteLayer / deleteLayerOnly remove: the node and its descendants
DeletedNames(t, name) ==
  IF TreeGetNode(t, name) THEN {name} \cup TreeDescendants(t, name) ELSE {}

\* deleteLayerOnly(name): store entries and tree nodes go, layers stay registered
deleteLayerOnly(name) ==
  /\ namedLayers' = SelectSeq(namedLayers,
                      LAMBDA e : e.name \notin DeletedNames(layerTree, name))
  /\ layerTree' = TreeDeleteNode(layerTree, name)
  /\ UNCHANGED tilemapLayers

\* deleteLayer(name) without the descent into the children: the entry of
\* name alone goes
deleteLayerNoCascade(name) ==
  /\ namedLayers' = IF TreeGetNode(layerTree, name)
                      THEN MapDelete(namedLayers, name) ELSE namedLayers
  /\ tilemapLayers' = IF TreeGetNode(layerTree, name)
                        THEN tilemapLayers \ { namedLayers[i].layer :
                               i \in { j \in DOMAIN namedLayers : namedLayers[j].name = name } }
                        ELSE tilemapLayers
  /\ layerTree' = TreeDeleteNode(layerTree, name)

\* deleteLayer(name): tiles removed, layers destroyed, entries and nodes go
deleteLayer(name) ==
  /\ namedLayers' = SelectSeq(namedLayers,
                      LAMBDA e : e.name \notin DeletedNames(layerTree, name))
  /\ tilemapLayers' = tilemapLayers \
       { namedLayers[i].layer : i \in { j \in DOMAIN namedLayers :
            namedLayers[j].name \in DeletedNames(layerTree, name) } }
  /\ layerTree' = TreeDeleteNode(layerTree, name)

\* the active layer the two delete buttons set afterwards
ActiveAfterDelete(name) ==
  IF findParent(layerTree, name) \notin {NULL, ROOT}
    THEN ActiveBoundsOf(namedLayers', findParent(layerTree, name))
    ELSE NO_BOUNDS

\* the modal's "delete layer only" button
DeleteOnlyClick(delName) ==
  /\ steps < MaxSteps
  /\ steps' = steps + 1
  /\ UNCHANGED <<selectionLocked, inFlight>>
  /\ delName \in TreeNodes(layerTree)
  /\ lastOp' = [kind |-> "delete_only", name |-> delName,
                removed |-> DeletedNames(layerTree, delName)]
  /\ deleteLayerOnly(delName)
  /\ activeLayerBounds' = ActiveAfterDelete(delName)
  /\ UNCHANGED <<grassLayer, featureLayer, selectionStart, selectionEnd,
                 selectedTiles, LastData, TurnStartData, shouldSaveTurnStart, manual>>
  /\ turn' = TurnAfterOther

\* the modal's "delete with assets" button
DeleteWithClick(delName) ==
  /\ steps < MaxSteps
  /\ steps' = steps + 1
  /\ UNCHANGED <<selectionLocked, inFlight>>
  /\ delName \in TreeNodes(layerTree)
  /\ lastOp' = [kind |-> "delete_with", name |-> delName,
                removed |-> DeletedNames(layerTree, delName)]
  /\ deleteLayer(delName)
  /\ activeLayerBounds' = ActiveAfterDelete(delName)
  /\ UNCHANGED <<grassLayer, featureLayer, selectionStart, selectionEnd,
                 selectedTiles, LastData, TurnStartData, shouldSaveTurnStart, manual>>
  /\ turn' = TurnAfterOther

\* the delete_layer tool
DeleteLayerTool(layerName) ==
  /\ steps < MaxSteps
  /\ steps' = steps + 1
  /\ UNCHANGED <<selectionLocked, inFlight>>
  /\ layerName \in LayerNames(namedLayers)
  /\ lastOp' = [kind |-> "delete_layer", name |-> layerName,
                removed |-> DeletedNames(layerTree, layerName),
                before |-> [c \in Cells |-> getTileAtGlobal(c[1], c[2])],
                area |-> { c \in Cells :
                             \E i \in DOMAIN namedLayers :
                               /\ namedLayers[i].name \in DeletedNames(layerTree, layerName)
                               /\ InBounds(namedLayers[i].bounds, c[1], c[2]) }]
  /\ deleteLayer(layerName)
  /\ UNCHANGED <<grassLayer, featureLayer, activeLayerBounds, selectionStart,
                 selectionEnd, selectedTiles, LastData, TurnStartData,
                 shouldSaveTurnStart, manual>>
  /\ turn' = TurnAfterOther

\* drop of a dragged tree label onto another label
Drop(draggedName, targetName) ==
  /\ steps < MaxSteps
  /\ steps' = steps + 1
  /\ UNCHANGED <<selectionLocked, inFlight>>
  /\ draggedName \in TreeNodes(layerTree)
  /\ targetName \in TreeNodes(layerTree)
  /\ lastOp' = [kind |-> "drop", dragged |-> draggedName, target |-> targetName,
                treeBefore |-> layerTree,
                intoSelf |-> draggedName = targetName
                             \/ targetName \in TreeDescendants(layerTree, draggedName)]
  /\ layerTree' = IF DropAllowed(layerTree, draggedName, targetName)
                    THEN TreeMove(layerTree, draggedName, targetName)
                    ELSE layerTree
  /\ UNCHANGED <<grassLayer, featureLayer, namedLayers, tilemapLayers,
                 activeLayerBounds, selectionStart, selectionEnd, selectedTiles,
                 LastData, TurnStartData, shouldSaveTurnStart, manual>>
  /\ turn' = TurnAfterOther

\* drop of a dragged tree label onto the Home entry
DropToRoot(draggedName) ==
  /\ Step("drop_root")
  /\ UNCHANGED <<selectionLocked, inFlight>>
  /\ draggedName \in TreeNodes(layerTree)
  /\ layerTree' = TreeMoveToRoot(layerTree, draggedName)
  /\ UNCHANGED <<grassLayer, featureLayer, namedLayers, tilemapLayers,
                 activeLayerBounds, selectionStart, selectionEnd, selectedTiles,
                 LastData, TurnStartData, shouldSaveTurnStart, manual>>
  /\ turn' = TurnAfterOther



\* ------------------------------------------------------------------------
\* Tools that place, clear and undo; turns; load
\* ------------------------------------------------------------------------
\* grids the placing tools and generators hand to putFeatureAtSelection
Buffers ==
  { << <<t>> >> : t \in Palette \cup {0} } \cup { << <<3>>, <<15>> >> }

\* a generator or tile tool: putFeatureAtSelection(result)
Place(grid) ==
  /\ steps < MaxSteps
  /\ steps' = steps + 1
  /\ UNCHANGED <<selectionLocked, inFlight>>
  /\ putFeatureAtSelection(grid, FALSE, FALSE, FALSE, "place")
  /\ shouldSaveTurnStart' = FALSE
  /\ turn' = TurnAfterCall
  /\ UNCHANGED manual

\* boxClear.generate(selection, [x, y, width, height])
ClearGrid(grid, x, y, width, height) ==
  [r \in DOMAIN grid |->
     [c \in DOMAIN grid[r] |->
        IF r - 1 >= y /\ r - 1 < y + height /\ c - 1 >= x /\ c - 1 < x + width
          THEN -2 ELSE grid[r][c]]]

\* the ClearBox tool: putFeatureAtSelection(result, false, true)
ClearBoxTool(x, y, width, height) ==
  /\ steps < MaxSteps
  /\ steps' = steps + 1
  /\ UNCHANGED <<selectionLocked, inFlight>>
  /\ x + width <= getSelection.width
  /\ y + height <= getSelection.height
  /\ putFeatureAtSelection(ClearGrid(getSelection.grid, x, y, width, height),
                           FALSE, TRUE, FALSE, "clear")
  /\ UNCHANGED shouldSaveTurnStart
  /\ turn' = TurnAfterCall
  /\ UNCHANGED manual

\* the restoring branch of the undo tool:
\* putFeatureAtSelection(TurnStartData, true, true, true), then markNewTurn()
UndoRestore ==
  LET res == PlacementResult(TurnStartData, TRUE, TRUE, TRUE)
  IN /\ featureLayer' = res.feature
     /\ namedLayers' = res.layers
     /\ shouldSaveTurnStart' = TRUE
     /\ lastOp' = [CallRecord("undo", TurnStartData, TRUE, TRUE, TRUE, res)
                     EXCEPT !.kind = "undo"] @@
                  [done |-> TRUE, turn |-> turn]
     /\ turn' = [marked |-> TRUE, calls |-> 0, pure |-> TRUE, base |-> <<>>]
     /\ UNCHANGED <<grassLayer, tilemapLayers, layerTree,
                    activeLayerBounds, selectionStart, selectionEnd,
                    selectedTiles, LastData, TurnStartData>>

\* the undo tool with no test of the snapshot's rows
UndoToolNoGuard ==
  /\ steps < MaxSteps
  /\ steps' = steps + 1
  /\ UNCHANGED <<selectionLocked, inFlight>>
  /\ UndoRestore
  /\ UNCHANGED manual

\* the undo tool: "Nothing to undo" when TurnStartData.grid has no rows
UndoTool ==
  /\ steps < MaxSteps
  /\ steps' = steps + 1
  /\ UNCHANGED <<selectionLocked, inFlight>>
  /\ IF Len(TurnStartData) = 0
       THEN /\ lastOp' = [kind |-> "undo", done |-> FALSE, turn |-> turn,
                          before |-> CombinedMap(grassLayer, featureLayer, namedLayers)]
            /\ UNCHANGED <<grassLayer, featureLayer, namedLayers, tilemapLayers,
                           layerTree, activeLayerBounds, selectionStart,
                           selectionEnd, selectedTiles, LastData, TurnStartData,
                           shouldSaveTurnStart, turn>>
       ELSE UndoRestore
  /\ UNCHANGED manual

\* the chat form's submit handler: markNewTurn()
MarkNewTurn ==
  /\ Step("mark_new_turn")
  /\ ~selectionLocked
  /\ sendSystemMessage
  /\ shouldSaveTurnStart' = TRUE
  /\ turn' = [marked |-> TRUE, calls |-> 0, pure |-> TRUE, base |-> <<>>]
  /\ UNCHANGED <<grassLayer, featureLayer, namedLayers, tilemapLayers, layerTree,
                 activeLayerBounds, selectionStart, selectionEnd, selectedTiles,
                 LastData, TurnStartData, manual>>

\* loadMapFromJSON(mapData): where each value of the file goes
LoadedFeature(mapData) ==
  [c \in Cells |->
     IF GridCell(mapData, c[1], c[2]) # UNDEFINED /\ GridCell(mapData, c[1], c[2]) > 3
       THEN GridCell(mapData, c[1], c[2]) ELSE -1]

\* a load that clears the base layer first, as it clears the feature layer
LoadedGrassCleared(grass, mapData) ==
  [c \in Cells |->
     IF /\ GridCell(mapData, c[1], c[2]) # UNDEFINED
        /\ GridCell(mapData, c[1], c[2]) >= 0
        /\ GridCell(mapData, c[1], c[2]) < 3
       THEN GridCell(mapData, c[1], c[2]) ELSE -1]

LoadedGrass(grass, mapData) ==
  [c \in Cells |->
     IF /\ GridCell(mapData, c[1], c[2]) # UNDEFINED
        /\ GridCell(mapData, c[1], c[2]) <= 3
        /\ GridCell(mapData, c[1], c[2]) >= 0
        /\ GridCell(mapData, c[1], c[2]) < 3
       THEN GridCell(mapData, c[1], c[2]) ELSE grass[c]]

\* Save map, then Load map with the file just saved
SaveAndLoad ==
  /\ steps < MaxSteps
  /\ steps' = steps + 1
  /\ UNCHANGED <<selectionLocked, inFlight>>
  /\ lastOp' = [kind |-> "load",
                before |-> CombinedMap(grassLayer, featureLayer, namedLayers)]
  /\ featureLayer' = LoadedFeature(GetFlattenedTileMap)
  /\ grassLayer' = LoadedGrass(grassLayer, GetFlattenedTileMap)
  /\ tilemapLayers' = tilemapLayers \ { namedLayers[i].layer : i \in DOMAIN namedLayers }
  /\ namedLayers' = <<>>
  /\ layerTree' = << >>
  /\ selectionStart' = <<0, 0>>
  /\ selectionEnd' = <<0, 0>>
  /\ selectedTiles' = EmptySelectedTiles
  /\ turn' = TurnAfterOther
  /\ UNCHANGED <<activeLayerBounds, LastData, TurnStartData, shouldSaveTurnStart,
                 manual>>

\* ------------------------------------------------------------------------
\* The editor as a state machine
\* ------------------------------------------------------------------------
\* create(): the base layer is filled with grass variants 0..2
GrassPatterns == { [c \in Cells |-> (c[1] + c[2] + k) % 3] : k \in {1} }

Init ==
  /\ grassLayer \in GrassPatterns
  /\ featureLayer = [c \in Cells |-> -1]
  /\ namedLayers = <<>>
  /\ tilemapLayers = {}
  /\ layerTree = << >>
  /\ activeLayerBounds = NO_BOUNDS
  /\ selectionStart = NO_POINT
  /\ selectionEnd = NO_POINT
  /\ selectedTiles = EmptySelectedTiles
  /\ LastData = <<>>
  /\ TurnStartData = <<>>
  /\ shouldSaveTurnStart = TRUE
  /\ lastOp = [kind |-> "init"]
  /\ turn = [marked |-> FALSE, calls |-> 0, pure |-> TRUE, base |-> <<>>]
  /\ steps = 0
  /\ selectionLocked = FALSE
  /\ inFlight = 0
  /\ manual = 0

Next ==
  \/ \E s \in PointerCells, e \in PointerCells : DragSelect(s, e)
  \/ \E c \in PointerCells, index \in Palette : ManualPlace(c, index)
  \/ \E name \in Names : NameLayerTool(name)
  \/ \E oldName \in Names, newName \in Names : RenameLayerTool(oldName, newName)
  \/ \E contextTarget \in Names, newName \in Names : CtxRename(contextTarget, newName)
  \/ \E name \in Names : LabelClick(name)
  \/ HomeClick
  \/ \E name \in Names : DeleteOnlyClick(name)
  \/ \E name \in Names : DeleteWithClick(name)
  \/ \E name \in Names : DeleteLayerTool(name)
  \/ \E d \in Names, t \in Names : Drop(d, t)
  \/ \E d \in Names : DropToRoot(d)
  \/ \E grid \in Buffers : Place(grid)
  \/ \E x \in ArgXs, y \in Ys, w \in ArgWidths, h \in 1 .. CANVAS_HEIGHT :
       ClearBoxTool(x, y, w, h)
  \/ UndoTool
  \/ MarkNewTurn
  \/ SaveAndLoad
  \/ ChatResponseEnd

Spec == Init /\ [][Next]_vars

\* ------------------------------------------------------------------------
\* The layer panel alone: the operations that read or change the region tree
\* ------------------------------------------------------------------------
NextTree ==
  \/ \E s \in PointerCells, e \in PointerCells : DragSelect(s, e)
  \/ \E name \in Names : NameLayerTool(name)
  \/ \E oldName \in Names, newName \in Names : RenameLayerTool(oldName, newName)
  \/ \E contextTarget \in Names, newName \in Names : CtxRename(contextTarget, newName)
  \/ \E name \in Names : DeleteOnlyClick(name)
  \/ \E name \in Names : DeleteWithClick(name)
  \/ \E name \in Names : DeleteLayerTool(name)
  \/ \E d \in Names, t \in Names : Drop(d, t)
  \/ \E d \in Names : DropToRoot(d)
  \/ SaveAndLoad
  \/ ChatResponseEnd

\* the editor once a rectangle has been dragged on the canvas and the
\* response to its selection message has ended
InitSelected ==
  /\ grassLayer \in GrassPatterns
  /\ featureLayer = [c \in Cells |-> -1]
  /\ namedLayers = <<>>
  /\ tilemapLayers = {}
  /\ layerTree = << >>
  /\ activeLayerBounds = NO_BOUNDS
  /\ \E s \in PointerCells, e \in PointerCells :
       /\ selectionStart = s
       /\ selectionEnd = e
       /\ selectedTiles = collectSelectedTiles([c \in Cells |-> -1], s, e)
  /\ LastData = <<>>
  /\ TurnStartData = <<>>
  /\ shouldSaveTurnStart = TRUE
  /\ lastOp = [kind |-> "select"]
  /\ turn = [marked |-> FALSE, calls |-> 0, pure |-> TRUE, base |-> <<>>]
  /\ steps = 0
  /\ selectionLocked = FALSE
  /\ inFlight = 0
  /\ manual = 0

SpecTree == InitSelected /\ [][NextTree]_vars

\* ------------------------------------------------------------------------
\* Chat turns alone: placement calls, clear calls, undo and turn starts
\* ------------------------------------------------------------------------
NextTurn ==
  \/ \E s \in PointerCells, e \in PointerCells : DragSelect(s, e)
  \/ \E grid \in Buffers : Place(grid)
  \/ \E x \in ArgXs, y \in Ys, w \in ArgWidths, h \in 1 .. CANVAS_HEIGHT :
       ClearBoxTool(x, y, w, h)
  \/ UndoTool
  \/ MarkNewTurn
  \/ \E c \in PointerCells, index \in Palette : ManualPlace(c, index)
  \/ ChatResponseEnd

SpecTurn == InitSelected /\ [][NextTurn]_vars

\* ------------------------------------------------------------------------
\* pruneBrokenTrees on its own: any feature layer manual placing can leave
\* ------------------------------------------------------------------------
PruneTiles == {-1, 3, 15, 6, 52}

InitPrune ==
  /\ grassLayer \in GrassPatterns
  /\ featureLayer \in [Cells -> PruneTiles]
  /\ namedLayers = <<>>
  /\ tilemapLayers = {}
  /\ layerTree = << >>
  /\ activeLayerBounds = NO_BOUNDS
  /\ selectionStart = NO_POINT
  /\ selectionEnd = NO_POINT
  /\ selectedTiles = EmptySelectedTiles
  /\ LastData = <<>>
  /\ TurnStartData = <<>>
  /\ shouldSaveTurnStart = TRUE
  /\ lastOp = [kind |-> "init"]
  /\ turn = [marked |-> FALSE, calls |-> 0, pure |-> TRUE, base |-> <<>>]
  /\ steps = 0
  /\ selectionLocked = FALSE
  /\ inFlight = 0
  /\ manual = 0

\* one run of pruneBrokenTrees(changed)
Prune(changed) ==
  /\ steps < MaxSteps
  /\ steps' = steps + 1
  /\ UNCHANGED <<selectionLocked, inFlight>>
  /\ featureLayer' = pruneBrokenTrees(featureLayer, changed)
  /\ lastOp' = [kind |-> "prune", changed |-> changed, input |-> featureLayer]
  /\ UNCHANGED <<grassLayer, namedLayers, tilemapLayers, layerTree,
                 activeLayerBounds, selectionStart, selectionEnd, selectedTiles,
                 LastData, TurnStartData, shouldSaveTurnStart, turn, manual>>

NextPrune == \E changed \in SUBSET Cells : Prune(changed)

SpecPrune == InitPrune /\ [][NextPrune]_vars

\* ------------------------------------------------------------------------
\* putFeatureAtSelection as a public method: any buffer, any flags
\* ------------------------------------------------------------------------
\* values of a buffer cell: the two sentinels and tile ids
CallValues == {-2, -1} \cup Palette

\* buffers of one cell, some of two rows, and one of two columns
CallBuffers ==
  { << <<a>> >> : a \in CallValues \ {15} } \cup
  { << <<3>>, <<15>> >>, << <<-1>>, <<52>> >>, << <<-2>>, <<-1>> >>,
    << <<-2>>, <<52>> >>, << <<52, 3>> >> }

\* TilemapLayer.putTileAt(index, x, y) stores the index and then reads the
\* tileset entry of the index; an index below -1 has none, and the Phaser
\* release decides whether that read raises.  Such a store happens in the
\* feature fallback only: the loop stage that stores cell k onwards, cut at
\* the first store that raises.
RECURSIVE PlaceLoopRaising(_, _, _, _, _, _, _, _, _)
PlaceLoopRaising(acc, grass, active, grid, startX, startY, k, acceptneg, undoing) ==
  IF k >= GridHeight(grid) * GridWidth(grid) THEN acc
  ELSE LET v == GridCell(grid, k % GridWidth(grid), k \div GridWidth(grid))
           nxt == PlaceCell(acc, grass, active, grid, startX, startY,
                            k % GridWidth(grid), k \div GridWidth(grid),
                            acceptneg, undoing)
       IN IF v = -2 /\ ~acceptneg /\ Len(nxt.changed) > Len(acc.changed)
            THEN [nxt EXCEPT !.changed = acc.changed] @@ [raised |-> TRUE]
            ELSE PlaceLoopRaising(nxt, grass, active, grid, startX, startY,
                                  k + 1, acceptneg, undoing)

\* the layers a call leaves when putTileAt raises on an index below -1:
\* the loop stops at the store, no pruning follows, no counts are returned
RaisingResult(grid, worldOverride, acceptneg, undoing) ==
  LET startX == IF ~worldOverride /\ HasSelection
                  THEN Min2(selectionStart[1], selectionEnd[1]) ELSE 0
      startY == IF ~worldOverride /\ HasSelection
                  THEN Min2(selectionStart[2], selectionEnd[2]) ELSE 0
      acc0 == [feature |-> featureLayer, layers |-> namedLayers,
               changed |-> <<>>, skippedCells |-> {}, total |-> 0, skipped |-> 0]
      acc == PlaceLoopRaising(acc0, grassLayer, activeLayerBounds, grid,
                              startX, startY, 0, acceptneg, undoing)
  IN [feature |-> acc.feature, layers |-> acc.layers, written |-> acc.feature,
      changed |-> SeqToSet(acc.changed), skippedCells |-> acc.skippedCells,
      placed |-> Len(acc.changed), skipped |-> acc.skipped, total |-> acc.total,
      startX |-> startX, startY |-> startY,
      raised |-> "raised" \in DOMAIN acc]

\* what a call of putFeatureAtSelection leaves: with `raises`, the outcome of
\* a Phaser release whose putTileAt raises on an index below -1
CallOutcome(grid, worldOverride, acceptneg, undoing, raises) ==
  LET cut == RaisingResult(grid, worldOverride, acceptneg, undoing)
  IN IF raises /\ GridWidth(grid) > 0 /\ cut.raised
       THEN cut
       ELSE PlacementResult(grid, worldOverride, acceptneg, undoing) @@
            [raised |-> FALSE]

\* a direct call of scene.putFeatureAtSelection(data, worldOverride,
\* acceptneg, undoing)
PutFeatureCall(grid, worldOverride, acceptneg, undoing, raises) ==
  LET res == CallOutcome(grid, worldOverride, acceptneg, undoing, raises)
      snap == SnapshotGrid(featureLayer, namedLayers)
  IN /\ steps < MaxSteps
     /\ turn.calls < MaxCalls
     /\ steps' = steps + 1
     /\ UNCHANGED <<selectionLocked, inFlight>>
     /\ raises => res.raised
     /\ featureLayer' = res.feature
     /\ namedLayers' = res.layers
     /\ IF ~worldOverride /\ ~HasSelection
          THEN /\ selectionStart' = <<0, 0>>
               /\ selectionEnd' = <<0, 0>>
               /\ selectedTiles' = EmptySelectedTiles
          ELSE UNCHANGED <<selectionStart, selectionEnd, selectedTiles>>
     /\ IF ~acceptneg
          THEN /\ LastData' = snap
               /\ TurnStartData' = snapshotTurnStart(snap)
               /\ shouldSaveTurnStart' = FALSE
          ELSE UNCHANGED <<LastData, TurnStartData, shouldSaveTurnStart>>
     /\ lastOp' = CallRecord("call", grid, worldOverride, acceptneg, undoing, res) @@
                  [raised |-> res.raised, raises |-> raises]
     /\ turn' = TurnAfterCall
     /\ UNCHANGED <<grassLayer, tilemapLayers, layerTree, activeLayerBounds,
                    manual>>

NextCall ==
  \/ \E name \in {"A"} : namedLayers = << >> /\ NameLayerTool(name)
  \/ \E grid \in CallBuffers, worldOverride, acceptneg, undoing, raises \in BOOLEAN :
       PutFeatureCall(grid, worldOverride, acceptneg, undoing, raises)

SpecCall == InitSelected /\ [][NextCall]_vars

\* ------------------------------------------------------------------------
\* Layers over layers: the editor once a layer "A" covers the canvas and
\* holds a tree, with a rectangle dragged inside it
\* ------------------------------------------------------------------------
\* the state after: drag over the canvas, name_layer "A", a placement of the
\* tree 3 over 15 at the top of the selection, a second drag
InitNested ==
  /\ grassLayer \in GrassPatterns
  /\ featureLayer = [c \in Cells |-> -1]
  /\ namedLayers =
       << [name |-> "A", layer |-> "A",
           bounds |-> [x |-> 0, y |-> 0, width |-> CANVAS_WIDTH,
                       height |-> CANVAS_HEIGHT],
           tiles |-> [c \in Cells |->
                        IF c = <<0, 0>> THEN 3 ELSE IF c = <<0, 1>> THEN 15 ELSE -1]] >>
  /\ tilemapLayers = {"A"}
  /\ layerTree = TreeAdd(<< >>, "A")
  /\ activeLayerBounds = NO_BOUNDS
  /\ \E s \in PointerCells, e \in PointerCells :
       /\ selectionStart = s
       /\ selectionEnd = e
       /\ selectedTiles = collectSelectedTiles([c \in Cells |-> -1], s, e)
  /\ LastData = [r \in 1 .. CANVAS_HEIGHT |-> [c \in 1 .. CANVAS_WIDTH |-> -1]]
  /\ TurnStartData = [r \in 1 .. CANVAS_HEIGHT |-> [c \in 1 .. CANVAS_WIDTH |-> -1]]
  /\ shouldSaveTurnStart = FALSE
  /\ lastOp = [kind |-> "select"]
  /\ turn = [marked |-> FALSE, calls |-> 1, pure |-> FALSE,
             base |-> Flatten(grassLayer, [c \in Cells |-> -1], << >>)]
  /\ steps = 0
  /\ selectionLocked = FALSE
  /\ inFlight = 0
  /\ manual = 0

NextNested ==
  \/ \E name \in Names : NameLayerTool(name)
  \/ \E oldName \in Names, newName \in Names \cup {"C"} : RenameLayerTool(oldName, newName)
  \/ \E name \in Names : LabelClick(name)
  \/ \E name \in Names : DeleteLayerTool(name)
  \/ \E d \in Names, t \in Names : Drop(d, t)
  \/ \E grid \in Buffers : Place(grid)
  \/ SaveAndLoad
  \/ ChatResponseEnd

SpecNested == InitNested /\ [][NextNested]_vars

\* ------------------------------------------------------------------------
\* The box tool
\* ------------------------------------------------------------------------
\* the cells of the requested shape, as offsets from the box corner: the
\* inner cells are left out unless the box is filled
BoxShape(width, height, filled) ==
  { d \in (0 .. (width - 1)) \X (0 .. (height - 1)) :
      ~(~filled /\ d[1] > 0 /\ d[1] < width - 1 /\ d[2] > 0 /\ d[2] < height - 1) }

\* boxPlacer.generate(selection, [x, y, width, height, tileID, filled])
BoxGrid(grid, x, y, width, height, tileID, filled) ==
  [r \in DOMAIN grid |->
     [c \in DOMAIN grid[r] |->
        IF /\ r - 1 >= y /\ r - 1 < y + height /\ c - 1 >= x /\ c - 1 < x + width
           /\ (filled \/ r - 1 - y = 0 \/ r - 1 - y = height - 1
                      \/ c - 1 - x = 0 \/ c - 1 - x = width - 1)
          THEN tileID ELSE grid[r][c]]]

\* expectedTiles of the box tool
expectedTiles(width, height, filled) ==
  IF filled THEN width * height ELSE width * 2 + height * 2 - 4

\* the result classification of the box tool
BoxStatus(actualPlaced, expected) ==
  IF actualPlaced = expected THEN "placed successfully"
  ELSE IF actualPlaced > 0 THEN "partially placed"
  ELSE "placement failed"

\* the box tool: validation, generate, putFeatureAtSelection(result), then
\* the count of shape cells whose combined read is the requested tile
BoxTool(x, y, width, height, tileID, filled) ==
  LET grid == BoxGrid(getSelection.grid, x, y, width, height, tileID, filled)
      res == PlacementResult(grid, FALSE, FALSE, FALSE)
      snap == SnapshotGrid(featureLayer, namedLayers)
      globalStartX == IF selectionStart = NO_POINT THEN 0
                      ELSE Min2(selectionStart[1], selectionEnd[1])
      globalStartY == IF selectionStart = NO_POINT THEN 0
                      ELSE Min2(selectionStart[2], selectionEnd[2])
      shape == { <<globalStartX + x + d[1], globalStartY + y + d[2]>> :
                   d \in BoxShape(width, height, filled) }
      actualPlaced ==
        Cardinality({ d \in BoxShape(width, height, filled) :
          ReadCombined(grassLayer, res.feature, res.layers,
                       globalStartX + x + d[1], globalStartY + y + d[2]) = tileID })
  IN /\ steps < MaxSteps
     /\ steps' = steps + 1
     /\ UNCHANGED <<selectionLocked, inFlight>>
     /\ x >= 0 /\ y >= 0
     /\ width >= 1 /\ height >= 1
     /\ x + width <= getSelection.width
     /\ y + height <= getSelection.height
     /\ tileID >= 0
     /\ featureLayer' = res.feature
     /\ namedLayers' = res.layers
     /\ IF ~HasSelection
          THEN /\ selectionStart' = <<0, 0>>
               /\ selectionEnd' = <<0, 0>>
               /\ selectedTiles' = EmptySelectedTiles
          ELSE UNCHANGED <<selectionStart, selectionEnd, selectedTiles>>
     /\ LastData' = snap
     /\ TurnStartData' = snapshotTurnStart(snap)
     /\ shouldSaveTurnStart' = FALSE
     /\ lastOp' = CallRecord("box", grid, FALSE, FALSE, FALSE, res) @@
                  [tileID |-> tileID, shape |-> shape, filled |-> filled,
                   width |-> width, height |-> height,
                   status |-> BoxStatus(actualPlaced,
                                        expectedTiles(width, height, filled))]
     /\ turn' = TurnAfterCall
     /\ UNCHANGED <<grassLayer, tilemapLayers, layerTree, activeLayerBounds,
                    manual>>

NextBox ==
  \/ \E s \in PointerCells, e \in PointerCells : DragSelect(s, e)
  \/ \E x \in ArgXs, y \in Ys, width \in ArgWidths, height \in 1 .. CANVAS_HEIGHT, tileID \in Palette \cup {0}, filled \in BOOLEAN :
       BoxTool(x, y, width, height, tileID, filled)
  \/ ChatResponseEnd

SpecBox == InitSelected /\ [][NextBox]_vars

\* ------------------------------------------------------------------------
\* The add tool (TilePlacer): one tile at a local cell of the selection
\* ------------------------------------------------------------------------
\* TilePlacer.generate(selection, {x, y, tileID}): the selection's grid with
\* the one cell overwritten
AddGrid(grid, x, y, tileID) == [grid EXCEPT ![y + 1][x + 1] = tileID]

\* the add tool: validation, the priority pre-check, generate,
\* putFeatureAtSelection(result)
AddTool(x, y, tileID) ==
  LET selection == getSelection
      globalX == (IF selectionStart = NO_POINT \/ selectionEnd = NO_POINT THEN 0
                  ELSE Min2(selectionStart[1], selectionEnd[1])) + x
      globalY == (IF selectionStart = NO_POINT \/ selectionEnd = NO_POINT THEN 0
                  ELSE Min2(selectionStart[2], selectionEnd[2])) + y
      previousTileId == getTileAtGlobal(globalX, globalY)
      grid == AddGrid(selection.grid, x, y, tileID)
      res == PlacementResult(grid, FALSE, FALSE, FALSE)
      snap == SnapshotGrid(featureLayer, namedLayers)
  IN /\ steps < MaxSteps
     /\ steps' = steps + 1
     /\ UNCHANGED <<selectionLocked, inFlight>>
     /\ ~(x < 0 \/ x >= selection.width \/ y < 0 \/ y >= selection.height)
     /\ tileID >= 0
     /\ ~(previousTileId >= 0 /\ getTilePriority(tileID) < getTilePriority(previousTileId))
     /\ featureLayer' = res.feature
     /\ namedLayers' = res.layers
     /\ IF ~HasSelection
          THEN /\ selectionStart' = <<0, 0>>
               /\ selectionEnd' = <<0, 0>>
               /\ selectedTiles' = EmptySelectedTiles
          ELSE UNCHANGED <<selectionStart, selectionEnd, selectedTiles>>
     /\ LastData' = snap
     /\ TurnStartData' = snapshotTurnStart(snap)
     /\ shouldSaveTurnStart' = FALSE
     /\ lastOp' = CallRecord("add", grid, FALSE, FALSE, FALSE, res) @@
                  [x |-> x, y |-> y, tileID |-> tileID,
                   target |-> <<globalX, globalY>>]
     /\ turn' = TurnAfterCall
     /\ UNCHANGED <<grassLayer, tilemapLayers, layerTree, activeLayerBounds,
                    manual>>

NextAdd ==
  \/ \E s \in PointerCells, e \in PointerCells : DragSelect(s, e)
  \/ \E c \in PointerCells, index \in Palette : ManualPlace(c, index)
  \/ \E x \in ArgXs, y \in Ys, w \in ArgWidths, h \in 1 .. CANVAS_HEIGHT :
       ClearBoxTool(x, y, w, h)
  \/ \E x \in ArgXs, y \in Ys, tileID \in Palette \cup {0} : AddTool(x, y, tileID)
  \/ ChatResponseEnd

SpecAdd == InitSelected /\ [][NextAdd]_vars

\* ------------------------------------------------------------------------
\* The selection lock: drags, the selection buttons and the chat form while
\* responses come and go
\* ------------------------------------------------------------------------
\* the "all-selection" button: setSelectionCoordinates(0, 0, CANVAS_WIDTH,
\* CANVAS_HEIGHT), which ends in endSelection and its system message
SelectAllClick ==
  /\ Step("select_all")
  /\ sendSystemMessage
  /\ selectionStart' = <<0, 0>>
  /\ selectionEnd' = <<CANVAS_WIDTH - 1, CANVAS_HEIGHT - 1>>
  /\ selectedTiles' = collectSelectedTiles(featureLayer, <<0, 0>>,
                                           <<CANVAS_WIDTH - 1, CANVAS_HEIGHT - 1>>)
  /\ UNCHANGED <<grassLayer, featureLayer, namedLayers, tilemapLayers, layerTree,
                 activeLayerBounds, LastData, TurnStartData, shouldSaveTurnStart,
                 manual, turn>>

\* the "clear-selection" button: clearSelection()
ClearSelectionClick ==
  /\ Step("clear_selection")
  /\ UNCHANGED <<selectionLocked, inFlight>>
  /\ selectionStart' = <<0, 0>>
  /\ selectionEnd' = <<0, 0>>
  /\ selectedTiles' = EmptySelectedTiles
  /\ UNCHANGED <<grassLayer, featureLayer, namedLayers, tilemapLayers, layerTree,
                 activeLayerBounds, LastData, TurnStartData, shouldSaveTurnStart,
                 manual, turn>>

NextLock ==
  \/ \E s \in PointerCells, e \in PointerCells : DragSelect(s, e)
  \/ SelectAllClick
  \/ ClearSelectionClick
  \/ MarkNewTurn
  \/ ChatResponseEnd

SpecLock == InitSelected /\ [][NextLock]_vars

\* ------------------------------------------------------------------------
\* The randomDecor generator: decor tiles scattered over an area given in
\* the selection's local coordinates
\* ------------------------------------------------------------------------
\* keys of DECOR_TILES the generator picks from
DecorTiles == {29}

\* the cells of the area x .. x + width - 1 by y .. y + height - 1
DecorArea(x, y, width, height) ==
  (x .. (x + width - 1)) \X (y .. (y + height - 1))

\* DecorGenerator.generate(selection, args) when Math.random() < density
\* comes out true at the cells of `hits`: grid[y][x] = key at each of them.
\* An assignment past the end of a row lengthens the row and leaves
\* undefined in between.
DecorGrid(grid, hits, key) ==
  [r \in DOMAIN grid |->
     LET rowHits == { h[1] : h \in { g \in hits : g[2] = r - 1 } }
         len == IF rowHits = {} THEN Len(grid[r])
                ELSE Max2(Len(grid[r]), SetMax(rowHits) + 1)
     IN [c \in 1 .. len |->
           IF c - 1 \in rowHits THEN key
           ELSE IF c <= Len(grid[r]) THEN grid[r][c] ELSE UNDEFINED]]

\* the randomDecor tool: generate, putFeatureAtSelection(result). A hit in a
\* row the grid does not have raises in generate, and nothing is placed
DecorTool(x, y, width, height, hits, key) ==
  LET selection == getSelection
      grid == DecorGrid(selection.grid, hits, key)
      res == PlacementResult(grid, FALSE, FALSE, FALSE)
      snap == SnapshotGrid(featureLayer, namedLayers)
  IN /\ steps < MaxSteps
     /\ steps' = steps + 1
     /\ UNCHANGED <<selectionLocked, inFlight>>
     /\ turn.calls < MaxCalls
     /\ ~(selection.width = 0 \/ selection.height = 0)
     /\ hits \subseteq DecorArea(x, y, width, height)
     /\ \A h \in hits : h[2] < Len(selection.grid)
     /\ featureLayer' = res.feature
     /\ namedLayers' = res.layers
     /\ IF ~HasSelection
          THEN /\ selectionStart' = <<0, 0>>
               /\ selectionEnd' = <<0, 0>>
               /\ selectedTiles' = EmptySelectedTiles
          ELSE UNCHANGED <<selectionStart, selectionEnd, selectedTiles>>
     /\ LastData' = snap
     /\ TurnStartData' = snapshotTurnStart(snap)
     /\ shouldSaveTurnStart' = FALSE
     /\ lastOp' = CallRecord("decor", grid, FALSE, FALSE, FALSE, res) @@
                  [x |-> x, y |-> y, width |-> width, height |-> height,
                   hits |-> hits]
     /\ turn' = TurnAfterCall
     /\ UNCHANGED <<grassLayer, tilemapLayers, layerTree, activeLayerBounds,
                    manual>>

NextDecor ==
  \/ \E s \in PointerCells, e \in PointerCells : DragSelect(s, e)
  \/ \E x \in Xs, y \in Ys, width \in 1 .. CANVAS_WIDTH, height \in 1 .. CANVAS_HEIGHT, key \in DecorTiles :
       \E hits \in SUBSET DecorArea(x, y, width, height) :
         DecorTool(x, y, width, height, hits, key)
  \/ ChatResponseEnd

SpecDecor == InitSelected /\ [][NextDecor]_vars

\* ------------------------------------------------------------------------
\* getTilePriority on its own: every id from the sentinels to past the tileset
\* ------------------------------------------------------------------------
TileIds == -2 .. MaxTileId

\* one call of getTilePriority(tileIndex)
Classify(tileIndex) ==
  /\ lastOp' = [kind |-> "priority", tileIndex |-> tileIndex,
                priority |-> getTilePriority(tileIndex)]
  /\ UNCHANGED <<grassLayer, featureLayer, namedLayers, tilemapLayers, layerTree,
                 activeLayerBounds, selectionStart, selectionEnd, selectedTiles,
                 LastData, TurnStartData, shouldSaveTurnStart, turn, steps,
                 manual, selectionLocked, inFlight>>

NextPriority == \E tileIndex \in TileIds : Classify(tileIndex)

SpecPriority == Init /\ [][NextPriority]_vars

\* ------------------------------------------------------------------------
\* Properties
\* ------------------------------------------------------------------------
\* the cells a placement call addressed with a real tile
Addressed ==
  { c \in Cells :
      /\ c[1] - lastOp.startX \in 0 .. (GridWidth(lastOp.grid) - 1)
      /\ c[2] - lastOp.startY \in 0 .. (GridHeight(lastOp.grid) - 1)
      /\ GridCell(lastOp.grid, c[1] - lastOp.startX, c[2] - lastOp.startY) >= 0 }

\* C1: priority monotonicity. After any non-undo placement call, for every
\* addressed cell whose combined read was b and whose buffer value is a tile a:
\* if a outranks b the call wrote a (cell counted as placed, combined read a);
\* if b outranks a the cell was skipped, counted as skipped, and its combined
\* read is still b. This whichever layer was the destination. The combined
\* read is taken as the call's writes leave it; the pruning that follows them
\* is the subject of C5.
C1_PriorityMonotonic ==
  lastOp.kind = "place" =>
    \A c \in Addressed :
      LET a == GridCell(lastOp.grid, c[1] - lastOp.startX, c[2] - lastOp.startY)
          b == lastOp.before[c]
      IN /\ getTilePriority(a) > getTilePriority(b) =>
              /\ c \in lastOp.changed
              /\ lastOp.afterWrite[c] = a
         /\ getTilePriority(a) < getTilePriority(b) =>
              /\ c \in lastOp.skippedCells
              /\ c \notin lastOp.changed
              /\ lastOp.skipped >= 1
              /\ lastOp.afterWrite[c] = b

\* C2: turn undo covers the whole turn. When the undo tool runs after
\* markNewTurn() and one or more placement calls (clear-rectangle calls
\* included), the flattened grid equals what it was immediately before the
\* first of those calls.
C2_TurnUndoRestores ==
  (lastOp.kind = "undo" /\ lastOp.turn.marked /\ lastOp.turn.pure
     /\ lastOp.turn.calls >= 1)
    => GetFlattenedTileMap = lastOp.turn.base

\* C3: every non-undo placement call, the clear-rectangle call with the
\* explicit-clear flag included, leaves in LastData the grid as it was
\* immediately before the call's first write, and in TurnStartData too when
\* the turn-start snapshot was pending.
C3_SnapshotBeforeWrite ==
  lastOp.kind \in {"place", "clear"} =>
    /\ LastData = lastOp.beforeSnap
    /\ lastOp.pending => TurnStartData = lastOp.beforeSnap

\* C5: structural integrity. When a placement call has returned, every cell
\* whose combined read is a tile with neighbour rules has, at each offset the
\* rules name, the expected tile in the combined read -- whichever layer
\* holds the tiles.
C5_StructuresIntact ==
  (lastOp.kind \in {"place", "clear"} \/ (lastOp.kind = "undo" /\ lastOp.done)) =>
    \A c \in Cells :
      HasRules(getTileAtGlobal(c[1], c[2])) =>
        \A r \in buildNeighbourRules(getTileAtGlobal(c[1], c[2])) :
          getTileAtGlobal(c[1] + r.dx, c[2] + r.dy) = r.expected

\* C6: save/load round trip. After loading the map that was just saved,
\* every cell's combined read is what it was before the save.
C6_SaveLoadRoundTrip ==
  lastOp.kind = "load" =>
    \A c \in Cells : getTileAtGlobal(c[1], c[2]) = lastOp.before[c]

\* C8: duplicate-name operations are all-or-nothing. A create or a rename
\* whose new name another layer already holds -- through the name_layer tool,
\* the rename_layer tool or the context menu's Rename -- leaves the
\* named-layer store, the feature layer and the region tree as they were.
C8_DuplicateNameAtomic ==
  [][(lastOp'.kind \in {"name_layer", "rename_layer", "ctx_rename"}
        /\ lastOp'.duplicate)
       => UNCHANGED <<namedLayers, featureLayer, layerTree>>]_vars

\* C9: the names in the named-layer store are exactly the names of the
\* non-root nodes of the region tree, and no name occurs twice.
C9_StoreMatchesTree ==
  /\ LayerNames(namedLayers) = TreeNodes(layerTree)
  /\ \A i, j \in DOMAIN namedLayers :
       namedLayers[i].name = namedLayers[j].name => i = j

\* C10: after the delete_layer tool has deleted a layer, the combined read of
\* every cell inside the bounds of the deleted layers is what it was before.
C10_DeleteToolKeepsTiles ==
  lastOp.kind = "delete_layer" =>
    \A c \in lastOp.area : getTileAtGlobal(c[1], c[2]) = lastOp.before[c]

RECURSIVE AncestorsUpTo(_, _, _)
AncestorsUpTo(t, n, k) ==
  IF k = 0 \/ n \notin DOMAIN t THEN {}
  ELSE {t[n]} \cup AncestorsUpTo(t, t[n], k - 1)

\* C7: the layer tree is acyclic -- no node is its own ancestor -- and a drop
\* of a node onto itself or onto one of its descendants is rejected and
\* leaves the tree unchanged.
C7_TreeAcyclic ==
  /\ \A n \in DOMAIN layerTree :
       n \notin AncestorsUpTo(layerTree, n, Cardinality(DOMAIN layerTree))
  /\ (lastOp.kind = "drop" /\ lastOp.intoSelf) => layerTree = lastOp.treeBefore

\* a node was dropped onto one of its descendants
C7_Witness ==
  /\ lastOp.kind = "drop"
  /\ lastOp.intoSelf
  /\ lastOp.dragged # lastOp.target
  /\ lastOp.target \in TreeDescendants(layerTree, lastOp.dragged)

\* C11: an undo in a turn with no placement call since the last
\* markNewTurn() reverts nothing: the combined read of every cell is the same
\* after the call as before it.
C11_UndoEmptyTurn ==
  (lastOp.kind = "undo" /\ lastOp.turn.marked /\ lastOp.turn.calls = 0) =>
    \A c \in Cells : getTileAtGlobal(c[1], c[2]) = lastOp.before[c]

\* C12: the turn-start snapshot is captured at most once per turn and is
\* stable: once it has been captured (the flag is no longer pending) no
\* placement, clear or undo call changes it until markNewTurn() re-arms the
\* flag, and a step that changes it leaves the flag cleared.
C12_TurnStartStable ==
  [][/\ ~shouldSaveTurnStart => TurnStartData' = TurnStartData
     /\ TurnStartData' # TurnStartData => ~shouldSaveTurnStart']_vars

\* a placement call that changed cells in a turn whose snapshot was already
\* captured, the grid now differing from that snapshot
C12_Witness ==
  /\ lastOp.kind \in {"place", "clear"}
  /\ ~lastOp.pending
  /\ lastOp.changed # {}
  /\ Len(TurnStartData) > 0
  /\ TurnStartData # SnapshotGrid(featureLayer, namedLayers)

\* C13: nothing-to-undo is a benign no-op: when the turn-start snapshot has
\* zero rows the undo tool answers nothing-to-undo and changes no layer
\* buffer, neither snapshot, and not the turn-start-pending flag.
C13_NothingToUndo ==
  [][(lastOp'.kind = "undo" /\ steps' # steps /\ Len(TurnStartData) = 0) =>
       /\ ~lastOp'.done
       /\ UNCHANGED <<grassLayer, featureLayer, namedLayers, LastData,
                      TurnStartData, shouldSaveTurnStart>>]_vars

\* the undo tool answered nothing-to-undo with tiles on the map
C13_Witness ==
  /\ lastOp.kind = "undo"
  /\ ~lastOp.done
  /\ \E c \in Cells : featureLayer[c] # -1

\* C14: the value -2 is never stored: no cell of the base layer, the feature
\* layer, a named layer or either undo snapshot holds -2, whatever buffer
\* and flags placement is called with.
C14_SentinelNeverStored ==
  /\ \A c \in Cells : grassLayer[c] # -2 /\ featureLayer[c] # -2
  /\ \A i \in DOMAIN namedLayers :
       \A c \in DOMAIN namedLayers[i].tiles : namedLayers[i].tiles[c] # -2
  /\ \A r \in DOMAIN LastData : \A c \in DOMAIN LastData[r] : LastData[r][c] # -2
  /\ \A r \in DOMAIN TurnStartData :
       \A c \in DOMAIN TurnStartData[r] : TurnStartData[r][c] # -2

\* the buffer value that a call anchored at (startX, startY) has for cell c
BufferAt(op, c) == GridCell(op.grid, c[1] - op.startX, c[2] - op.startY)

\* the tile a named layer holds at world cell c (-1: none, or c outside it)
NamedAt(info, c) ==
  IF InBounds(info.bounds, c[1], c[2])
    THEN getTileAt(info.tiles, c[1] - info.bounds.x, c[2] - info.bounds.y)
    ELSE -1

IsPlacementStep == steps' # steps /\ lastOp'.kind \in {"call", "place", "clear"}

\* C15 as stated: in a non-undo placement a buffer cell of -1 leaves the grid
\* cell unchanged in the feature layer and in every named layer, and the
\* cell is counted in none of total, placed and skipped.
C15_EmptyCellUntouched ==
  [][(IsPlacementStep /\ ~lastOp'.undoing) =>
       /\ \A c \in Cells : BufferAt(lastOp', c) = -1 =>
            /\ featureLayer'[c] = featureLayer[c]
            /\ \A i \in DOMAIN namedLayers :
                 NamedAt(namedLayers'[i], c) = NamedAt(namedLayers[i], c)
            /\ c \notin lastOp'.changed
            /\ c \notin lastOp'.skippedCells
       /\ lastOp'.total <= Cardinality({ c \in Cells : BufferAt(lastOp', c) >= 0 })
       /\ lastOp'.placed = Cardinality(lastOp'.changed)
       /\ lastOp'.skipped = Cardinality(lastOp'.skippedCells)]_vars

\* C15, amended: in a non-undo placement a buffer cell of -1 is left
\* untouched by the write loop: the grid cell is unchanged in every named
\* layer, it is unchanged in the feature layer unless the pruning that ends
\* the call clears it as a piece of a multi-tile structure, and the cell is
\* counted in none of total, placed and skipped.
C15_EmptyCellUntouchedByLoop ==
  [][(IsPlacementStep /\ ~lastOp'.undoing) =>
       /\ \A c \in Cells : BufferAt(lastOp', c) = -1 =>
            /\ \/ featureLayer'[c] = featureLayer[c]
               \/ featureLayer'[c] = -1 /\ HasRules(featureLayer[c])
            /\ \A i \in DOMAIN namedLayers :
                 NamedAt(namedLayers'[i], c) = NamedAt(namedLayers[i], c)
            /\ c \notin lastOp'.changed
            /\ c \notin lastOp'.skippedCells
       /\ lastOp'.total <= Cardinality({ c \in Cells : BufferAt(lastOp', c) >= 0 })
       /\ lastOp'.placed = Cardinality(lastOp'.changed)
       /\ lastOp'.skipped = Cardinality(lastOp'.skippedCells)]_vars

\* a non-undo call changed a cell while its buffer had -1 over a cell where
\* the feature layer still holds a tile
C15_Witness ==
  /\ lastOp.kind = "call"
  /\ ~lastOp.undoing
  /\ lastOp.changed # {}
  /\ \E c \in Cells : BufferAt(lastOp, c) = -1 /\ featureLayer[c] >= 0

\* the buffer of a call with every cell that falls outside the grid blanked
Clip(grid, startX, startY) ==
  [r \in DOMAIN grid |->
     [c \in DOMAIN grid[r] |->
        IF <<startX + c - 1, startY + r - 1>> \in Cells
          THEN grid[r][c] ELSE UNDEFINED]]

\* the offsets of a buffer whose absolute position is outside the grid
OutOfRange(op) ==
  { o \in (0 .. GridWidth(op.grid) - 1) \X (0 .. GridHeight(op.grid) - 1) :
      <<op.startX + o[1], op.startY + o[2]>> \notin Cells }

\* C16: a placement never writes outside the grid and out-of-range buffer
\* cells are skipped without a trace: the layers it leaves and the counts
\* total, placed and skipped are those of the same call on the buffer with
\* its out-of-range cells blanked, so every in-range cell is processed as if
\* the out-of-range cells were not there, and every changed or blocked cell
\* is a cell of the grid.
C16_OutOfRangeSkipped ==
  [][(steps' # steps /\ lastOp'.kind = "call") =>
       LET op == lastOp'
           o == CallOutcome(Clip(op.grid, op.startX, op.startY), op.worldOverride,
                            op.acceptneg, op.undoing, op.raises)
       IN /\ featureLayer' = o.feature
          /\ namedLayers' = o.layers
          /\ op.total = o.total /\ op.placed = o.placed /\ op.skipped = o.skipped
          /\ op.raised = o.raised
          /\ op.changed \subseteq Cells
          /\ op.skippedCells \subseteq Cells
          /\ DOMAIN featureLayer' = Cells]_vars

\* a call whose buffer has a tile at an out-of-range position changed an
\* in-range cell
C16_Witness ==
  /\ lastOp.kind = "call"
  /\ lastOp.changed # {}
  /\ \E o \in OutOfRange(lastOp) : GridCell(lastOp.grid, o[1], o[2]) >= 0

\* C17: naming a selection carves it out of the feature layer: after
\* nameSelection(name) over rectangle R the new layer's bounds equal R (the
\* min/max-normalised selection), the new layer holds every tile the feature
\* layer had inside R at the same world position, the feature layer is empty
\* at every cell of R and unchanged outside R.
C17_NameCarvesSelection ==
  [][(steps' # steps /\ lastOp'.kind = "name_layer" /\ ~lastOp'.duplicate) =>
       LET R == SelectionBounds
           i == LayerIndexOf(namedLayers', lastOp'.name)
       IN /\ i # 0
          /\ namedLayers'[i].bounds = R
          /\ \A c \in Cells :
               IF InBounds(R, c[1], c[2])
                 THEN /\ featureLayer'[c] = -1
                      /\ featureLayer[c] # -1 =>
                           NamedAt(namedLayers'[i], c) = featureLayer[c]
                 ELSE featureLayer'[c] = featureLayer[c]]_vars

\* C18: the base layer is always fully populated and is never written by
\* placement: every base-layer cell holds a tile id >= 0 in every reachable
\* state, and no step other than a map load (placement, clear, undo, naming,
\* rename, delete, selection, manual edit) changes a base-layer cell.
C18_BaseLayerPopulated ==
  /\ \A c \in Cells : grassLayer[c] >= 0
  /\ [][/\ \A c \in Cells : grassLayer'[c] >= 0
        /\ lastOp'.kind # "load" => grassLayer' = grassLayer]_vars

\* a map was loaded with feature tiles on it, after a placement call
C18_Witness ==
  /\ lastOp.kind = "load"
  /\ \E c \in Cells : featureLayer[c] >= 0
  /\ LastData # << >>

\* C19: getTilePriority classifies every id by the set it is listed in:
\* -1 is EMPTY; 48-67 and 72-91 are HOUSE; every id of the fence set is
\* FENCE; 39-43 are PATH; every id of the decor list is DECOR; 3-23 and
\* 27-35 are FOREST; 0-2 and every unlisted id are GRASS.
C19_PriorityBySet ==
  lastOp.kind = "priority" =>
    LET id == lastOp.tileIndex
        p == lastOp.priority
        house == (id >= 48 /\ id <= 67) \/ (id >= 72 /\ id <= 91)
        fence == id \in {44, 45, 46, 56, 58, 68, 69, 70}
        path == id >= 39 /\ id <= 43
        decor == id \in ({57, 83} \cup (92 .. 95) \cup (104 .. 107)
                          \cup (115 .. 119) \cup (127 .. 131))
        forest == (id >= 3 /\ id <= 23) \/ (id >= 27 /\ id <= 35)
    IN /\ p \in {-1, 0, 1, 2, 3, 4, 5}
       /\ id = -1 => p = TILE_PRIORITY.EMPTY
       /\ house => p = TILE_PRIORITY.HOUSE
       /\ fence => p = TILE_PRIORITY.FENCE
       /\ path => p = TILE_PRIORITY.PATH
       /\ decor => p = TILE_PRIORITY.DECOR
       /\ forest => p = TILE_PRIORITY.FOREST
       /\ (id # -1 /\ ~house /\ ~fence /\ ~path /\ ~decor /\ ~forest) =>
            p = TILE_PRIORITY.GRASS

\* C20: the box tool reports its outcome from what is on the map: for every
\* valid call it answers 'placed successfully' exactly when every cell of
\* the requested shape holds the requested tile after the call, 'partially
\* placed' when some but not all of them do, and 'placement failed' when
\* none does.
C20_BoxStatusFromMap ==
  lastOp.kind = "box" =>
    LET held == { c \in lastOp.shape : getTileAtGlobal(c[1], c[2]) = lastOp.tileID }
    IN /\ lastOp.status = "placed successfully" <=> held = lastOp.shape
       /\ lastOp.status = "partially placed" <=>
            (held # {} /\ held # lastOp.shape)
       /\ lastOp.status = "placement failed" <=> held = {}

\* C21: explicit clear: in a placement that accepts explicit clears, a
\* buffer cell of -2 at an in-grid position leaves the cell with no tile in
\* the feature layer and in no named layer whose bounds contain it, its
\* combined read is the base tile, and the cell is recorded as changed
\* whatever tile it held.
C21_ExplicitClear ==
  (lastOp.kind \in {"call", "clear"} /\ lastOp.acceptneg) =>
    \A c \in Cells : BufferAt(lastOp, c) = -2 =>
      /\ featureLayer[c] = -1
      /\ \A i \in DOMAIN namedLayers : NamedAt(namedLayers[i], c) = -1
      /\ getTileAtGlobal(c[1], c[2]) = grassLayer[c]
      /\ c \in lastOp.changed

\* an explicit clear over a cell that showed a tile and lies in a named layer
C21_Witness ==
  /\ lastOp.kind = "call"
  /\ lastOp.acceptneg
  /\ \E c \in Cells :
       /\ BufferAt(lastOp, c) = -2
       /\ lastOp.before[c] \in Palette
       /\ \E i \in DOMAIN namedLayers : InBounds(namedLayers[i].bounds, c[1], c[2])

\* the layers that may be the write target of cell c under the claim's rule:
\* the layer of the active clamp when c lies inside the clamp, otherwise the
\* first named layer whose bounds contain c, otherwise the feature layer (0)
WriteTargets(layers, active, c) ==
  IF active # NO_BOUNDS /\ InBounds(active, c[1], c[2])
    THEN { i \in DOMAIN layers : layers[i].bounds = active }
  ELSE IF ContainingLayerIndex(layers, c[1], c[2]) # 0
    THEN { ContainingLayerIndex(layers, c[1], c[2]) }
  ELSE {0}

\* C22: destination resolution: in a non-undo placement of a tile v >= 0 at
\* an in-grid cell c exactly one layer is the write target (the active layer
\* if a clamp is set and c lies inside it, otherwise the first named layer
\* whose bounds contain c, otherwise the feature layer) and no layer other
\* than the target changes at c.  The layers are compared as the write loop
\* leaves them, before the pruning that ends the call.
C22_DestinationResolution ==
  [][(steps' # steps /\ lastOp'.kind \in {"place", "call", "box"} /\ ~lastOp'.undoing) =>
       LET op == lastOp'
           res == PlacementResult(op.grid, op.worldOverride, op.acceptneg, op.undoing)
       IN \A c \in Cells : BufferAt(op, c) >= 0 =>
            \E t \in WriteTargets(namedLayers, activeLayerBounds, c) :
              /\ t # 0 => res.written[c] = featureLayer[c]
              /\ \A j \in DOMAIN namedLayers :
                   j # t => NamedAt(res.layers[j], c) = NamedAt(namedLayers[j], c)]_vars

\* C22 is checked under SpecNested, where a label click, a deletion and a
\* placement follow one another.

\* C27: the active-layer clamp always refers to a live layer: when
\* activeLayerBounds is set it equals the bounds of some layer in the
\* named-layer store.
C27_ClampRefersToLiveLayer ==
  activeLayerBounds # NO_BOUNDS =>
    \E i \in DOMAIN namedLayers : namedLayers[i].bounds = activeLayerBounds

\* the nodes a deletion of n takes away, read off the parent links: n and
\* every node that has n among its ancestors
Subtree(t, n) ==
  IF n \in DOMAIN t
    THEN { m \in DOMAIN t : m = n \/ n \in AncestorsUpTo(t, m, Cardinality(DOMAIN t)) }
    ELSE {}

CountedCells(op) ==
  { c \in Cells : BufferAt(op, c) >= 0 \/ (op.undoing /\ BufferAt(op, c) = -1) }

\* C25: result counts are consistent: for a placement call whose buffer
\* cells are all >= -1, placed + skipped = total, placed is the number of
\* changed cells, and each in-grid cell that counts toward total is either
\* written once or skipped once.
C25_CountsConsistent ==
  (lastOp.kind \in {"call", "place", "clear", "box"} /\
   \A r \in DOMAIN lastOp.grid : \A k \in DOMAIN lastOp.grid[r] : lastOp.grid[r][k] >= -1) =>
    /\ lastOp.placed + lastOp.skipped = lastOp.total
    /\ lastOp.placed = Cardinality(lastOp.changed)
    /\ lastOp.skipped = Cardinality(lastOp.skippedCells)
    /\ lastOp.changed \cap lastOp.skippedCells = {}
    /\ lastOp.changed \cup lastOp.skippedCells = CountedCells(lastOp)

\* a call wrote one cell of its buffer and was blocked by priority at another
C25_Witness ==
  /\ lastOp.kind = "call"
  /\ \A r \in DOMAIN lastOp.grid : \A k \in DOMAIN lastOp.grid[r] : lastOp.grid[r][k] >= -1
  /\ lastOp.placed >= 1
  /\ lastOp.skipped >= 1
  /\ lastOp.total = 2

\* C26: the two combined views agree: for every grid cell (x, y),
\* GetFlattenedTileMap()[y][x] equals getTileAtGlobal(x, y), cells covered by
\* more than one named layer included.
C26_ViewsAgree ==
  \A c \in Cells : GetFlattenedTileMap[c[2] + 1][c[1] + 1] = getTileAtGlobal(c[1], c[2])

\* C28: renaming a layer changes no visible tile: after a successful
\* renameLayer(old, new), getTileAtGlobal(x, y) is the same as before for
\* every cell, cells where the renamed layer overlaps another named layer
\* included, and the renamed layer keeps its bounds and tiles.
C28_RenameKeepsView ==
  [][(steps' # steps /\ lastOp'.kind \in {"rename_layer", "ctx_rename"}
        /\ lastOp'.oldName \in LayerNames(namedLayers)
        /\ lastOp'.newName \notin LayerNames(namedLayers)) =>
       LET old == namedLayers[LayerIndexOf(namedLayers, lastOp'.oldName)]
       IN /\ \A c \in Cells :
               ReadCombined(grassLayer', featureLayer', namedLayers', c[1], c[2])
                 = getTileAtGlobal(c[1], c[2])
          /\ \E j \in DOMAIN namedLayers' :
               /\ namedLayers'[j].name = lastOp'.newName
               /\ namedLayers'[j].bounds = old.bounds
               /\ namedLayers'[j].tiles = old.tiles]_vars

\* C30: a single-tile tool call touches only its target: an add call at
\* local (x, y) changes the combined read of at most that cell of the
\* selection plus cells removed by pruning; a cell emptied by an earlier
\* ClearBox call stays empty.
C30_AddTouchesOnlyTarget ==
  [][(steps' # steps /\ lastOp'.kind = "add") =>
       \A c \in Cells \ {lastOp'.target} :
         ReadCombined(grassLayer', featureLayer', namedLayers', c[1], c[2])
             = lastOp'.afterWrite[c]
           => lastOp'.afterWrite[c] = lastOp'.before[c]]_vars

\* C23: selection lock: while any model response is in flight (after a
\* chatResponseStart whose matching chatResponseEnd has not yet fired), the
\* selection state -- selectionStart, selectionEnd and the collected selected
\* tiles -- does not change.
C23_SelectionLocked ==
  [][inFlight > 0 => UNCHANGED <<selectionStart, selectionEnd, selectedTiles>>]_vars

\* the cells of the current selection rectangle
SelectionCells == { c \in Cells : InBounds(SelectionBounds, c[1], c[2]) }

\* C29: tool placements stay inside the selection: for every generator or
\* tile tool invoked through its toolCall with arguments its schema accepts,
\* every cell recorded as changed by the resulting non-undo placement lies
\* inside the current selection rectangle.
C29_ToolStaysInSelection ==
  [][(steps' # steps /\ lastOp'.kind = "decor") =>
       lastOp'.changed \subseteq SelectionCells]_vars

====
